---- MODULE Spec2Model ----
(***************************************************************************)
(* A model of the eco-project admin dashboard: the Map view and its status *)
(* workflow (MapView), the Users view with its toggle, edit row and add    *)
(* form (UsersView), the Logs view (LogsView) and the search filter of the *)
(* Users and Logs views, over the backend tables of the migration.         *)
(*                                                                         *)
(* Every handler of the views is an async function.  The synchronous code  *)
(* up to an await is one action; the backend serving the request is one    *)
(* action; the continuation after the await is one action.  A request in   *)
(* flight is a record in the view's task list (oldest first).              *)
(*                                                                         *)
(* Nullable columns are options: None is SQL NULL / JS null, Some(x) a     *)
(* value.  Text is a sequence of one-character strings.  Timestamps are    *)
(* integers; the seed data is inserted at time 0, and every operator click *)
(* that sends a mutation happens at a later instant than the one before.   *)
(* created_at is stamped by the server (DEFAULT now()), updated_at and     *)
(* cleaned_at by the browser (new Date()): SpecClocks runs the Map view    *)
(* with a server clock that need not agree with the browser's.             *)
(***************************************************************************)
EXTENDS Integers, Sequences, FiniteSets, TLC

VARIABLES
  trash_locations,   \* table trash_locations: id -> row
  project_users,     \* table project_users: id -> row
  system_logs,       \* table system_logs: id -> row
  clock,             \* the instant of the last operator click that sent a mutation
  locations,         \* MapView: rows of the last applied fetch
  loading,           \* MapView: loading flag
  statusFilter,      \* MapView: selected status filter
  selectedLocation,  \* MapView: None, or Some(row) shown in the detail panel
  mapTasks,          \* MapView: requests in flight, oldest first
  everCleaned,       \* history: id -> the row's status has been 'cleaned'
  transitioned,      \* history: id -> a status update of the row was accepted
  users,             \* UsersView: rows of the last applied fetch
  usersLoading,      \* UsersView: loading flag
  usersSearchQuery,  \* UsersView: search text
  userTasks,         \* UsersView: requests in flight, oldest first
  editingUser,       \* UsersView: None, or Some(row) being edited
  editForm,          \* UsersView: None for {}, or Some(fields) of the edit row
  showAddForm,       \* UsersView: the add form is shown
  newUserForm,       \* UsersView: the fields typed into the add form
  usersConsole,      \* UsersView: the last message of console.error
  toggleCount,       \* history: id -> number of accepted toggle updates
  logs,              \* LogsView: rows held by the view
  logsSearchQuery,   \* LogsView: search text
  logsLoading,       \* LogsView: loading flag
  filterLevel,       \* LogsView: selected level filter
  logTasks,          \* LogsView: requests in flight, oldest first
  logsIssued,        \* history: number of fetches LogsView has issued
  logsHeld,          \* history: issue number of the fetch whose rows are held
  logsSeen,          \* history: highest issue number of an applied response
  logsOutcome,       \* history: branch the last handled response took
  otherSession,      \* None, or Some(state of UsersView in a second browser)
  lookupArg,         \* the string a label or color lookup is called with
  lookupName,        \* the lookup that was called, "none" before the call
  lookupValue        \* None, or Some(value the lookup returned)

vars == <<trash_locations, project_users, system_logs, clock,
          locations, loading, statusFilter, selectedLocation, mapTasks,
          everCleaned, transitioned,
          users, usersLoading, usersSearchQuery, userTasks,
          editingUser, editForm, showAddForm, newUserForm, usersConsole,
          toggleCount,
          logs, logsSearchQuery, logsLoading, filterLevel, logTasks,
          logsIssued, logsHeld, logsSeen, logsOutcome,
          otherSession, lookupArg, lookupName, lookupValue>>

backendVars == <<trash_locations, project_users, system_logs>>
mapVars == <<locations, loading, statusFilter, selectedLocation, mapTasks>>
mapHistory == <<everCleaned, transitioned>>
usersForms == <<editingUser, editForm, showAddForm, newUserForm>>
usersVars == <<users, usersLoading, usersSearchQuery, userTasks, usersForms,
               usersConsole>>
logsHistory == <<logsIssued, logsHeld, logsSeen, logsOutcome>>
logsVars == <<logs, logsSearchQuery, logsLoading, filterLevel, logTasks,
              logsHistory>>
sessionVars == <<otherSession>>
lookupVars == <<lookupArg, lookupName, lookupValue>>

----------------------------------------------------------------------------
(* Bounds of the model *)

\* seeded project users; the seed inserts one trash location per user
NumSeed == 2
\* the last instant an operator click can read
MaxClock == 2
\* requests of one view in flight at the same time
MaxTasks == 2
\* rows a view holds when its search filter is checked on its own
MaxRows == 3
\* rows of the largest system_logs table
MaxLogs == 101
\* fetches LogsView issues, the one of its mount included
MaxFetches == 3
\* rows the backend lets UsersView insert into project_users
MaxInserts == 1
\* rows of the user list the two editors of a row open
EditorRows == 1

----------------------------------------------------------------------------
(* Values *)

None == <<>>
Some(x) == <<x>>

RemoveAt(s, i) == SubSeq(s, 1, i - 1) \o SubSeq(s, i + 1, Len(s))

Statuses == {"reported", "in_progress", "cleaned", "rejected"}
SeedStatuses == {"reported", "in_progress", "cleaned"}
StatusFilters == {"all"} \cup Statuses
\* the options of the status filter the operator picks in the model
FilterChoices == {"all", "cleaned"}
\* the status the seed's random() gives row i in the model
SeedStatusOf(i) == IF i = 1 THEN "reported" ELSE "cleaned"

UserIds == 1 .. NumSeed
LocIds == 1 .. NumSeed

\* the rows the migration inserts into project_users
SeedUser(i) ==
  [id |-> i,
   email |-> <<"u", "s", "e", "r", IF i = 1 THEN "1" ELSE IF i = 2 THEN "2" ELSE "3">>,
   full_name |-> IF i = 1 THEN <<"I", "v", "a", "n">>
                 ELSE IF i = 2 THEN <<"M", "a", "r", "i", "a">>
                 ELSE <<"A", "l", "e", "k", "s", "e", "i">>,
   phone |-> Some(<<"+", "7", IF i = 1 THEN "1" ELSE IF i = 2 THEN "2" ELSE "3">>),
   is_active |-> TRUE,
   reports_count |-> IF i = 1 THEN 5 ELSE IF i = 2 THEN 3 ELSE 8,
   created_at |-> 0,
   updated_at |-> 0]

\* a row the migration inserts into trash_locations, one per project user;
\* status is the only random column the views act on
SeedLocation(i, st) ==
  [id |-> i,
   user_id |-> Some(i),
   latitude |-> 55,
   longitude |-> 37,
   description |-> "dump",
   trash_type |-> IF i % 2 = 1 THEN "plastic" ELSE "metal",
   status |-> st,
   priority |-> IF i % 2 = 1 THEN "medium" ELSE "high",
   image_url |-> None,
   created_at |-> 0,
   updated_at |-> 0,
   cleaned_at |-> None]

\* the rows the migration inserts into system_logs
SeedLogs ==
  [i \in 1 .. 2 |->
     [id |-> i,
      log_level |-> IF i = 1 THEN "info" ELSE "error",
      action |-> IF i = 1 THEN <<"l", "o", "g", "i", "n">> ELSE <<"d", "b">>,
      entity_type |-> Some(IF i = 1 THEN <<"a", "d", "m">> ELSE <<"s", "y", "s">>),
      created_at |-> 0]]

----------------------------------------------------------------------------
(* Backend: update-by-identity and select-with-filter-and-order *)

\* mutant: the update rewrites priority to the column default
ApplyUpdate_ResetsPriority(row, payload) ==
  [f \in DOMAIN row |->
     IF f \in DOMAIN payload THEN payload[f]
     ELSE IF f = "priority" THEN "medium" ELSE row[f]]

\* UPDATE ... SET <payload> WHERE id = row.id: the columns of the payload
\* are replaced, every other column is kept
ApplyUpdate(row, payload) ==
  [f \in DOMAIN row |-> IF f \in DOMAIN payload THEN payload[f] ELSE row[f]]

\* the row of S that ORDER BY created_at DESC puts first (ties: lowest id)
FirstDesc(S) ==
  CHOOSE r \in S : \A q \in S :
    \/ r.created_at > q.created_at
    \/ r.created_at = q.created_at /\ r.id <= q.id

RECURSIVE OrderDesc(_)
OrderDesc(S) ==
  IF S = {} THEN <<>>
  ELSE LET r == FirstDesc(S) IN <<r>> \o OrderDesc(S \ {r})

\* select('*, project_users(full_name)'): the row joined with its reporter
Joined(row) ==
  [f \in DOMAIN row \cup {"project_users"} |->
     IF f = "project_users"
     THEN IF row.user_id # None /\ row.user_id[1] \in DOMAIN project_users
          THEN Some([full_name |-> project_users[row.user_id[1]].full_name])
          ELSE None
     ELSE row[f]]

\* the query fetchLocations builds, run on the table
SelectLocations(filter) ==
  OrderDesc({Joined(trash_locations[i]) : i \in
    {j \in DOMAIN trash_locations :
       filter = "all" \/ trash_locations[j].status = filter}})

----------------------------------------------------------------------------
(* Text: String.prototype.toLowerCase and String.prototype.includes *)

UpperChars == <<"A", "B", "C", "D", "E", "F", "G", "H", "I", "J", "K", "L", "M",
                "N", "O", "P", "Q", "R", "S", "T", "U", "V", "W", "X", "Y", "Z">>
LowerChars == <<"a", "b", "c", "d", "e", "f", "g", "h", "i", "j", "k", "l", "m",
                "n", "o", "p", "q", "r", "s", "t", "u", "v", "w", "x", "y", "z">>

ToLowerChar(c) ==
  IF \E k \in 1 .. Len(UpperChars) : UpperChars[k] = c
  THEN LowerChars[CHOOSE k \in 1 .. Len(UpperChars) : UpperChars[k] = c]
  ELSE c

toLowerCase(s) == [k \in 1 .. Len(s) |-> ToLowerChar(s[k])]

\* s.includes(q): q occurs in s at some position (the empty q at the first)
includes(s, q) ==
  \E k \in 1 .. (Len(s) - Len(q) + 1) :
    \A j \in 1 .. Len(q) : s[k + j - 1] = q[j]

----------------------------------------------------------------------------
(* The search filters of UsersView and LogsView *)

\* mutant: the search text is compared as typed, not lower-cased
UserMatches_QueryAsTyped(user, searchQuery) ==
  \/ includes(toLowerCase(user.full_name), searchQuery)
  \/ includes(toLowerCase(user.email), searchQuery)
  \/ user.phone # None /\ includes(toLowerCase(user.phone[1]), searchQuery)

\* the predicate of users.filter: phone?. gives undefined for a null phone
UserMatches(user, searchQuery) ==
  \/ includes(toLowerCase(user.full_name), toLowerCase(searchQuery))
  \/ includes(toLowerCase(user.email), toLowerCase(searchQuery))
  \/ user.phone # None
       /\ includes(toLowerCase(user.phone[1]), toLowerCase(searchQuery))

RECURSIVE filteredUsers(_, _)
filteredUsers(rows, searchQuery) ==
  IF rows = <<>> THEN <<>>
  ELSE (IF UserMatches(Head(rows), searchQuery) THEN <<Head(rows)>> ELSE <<>>)
         \o filteredUsers(Tail(rows), searchQuery)

\* the predicate of logs.filter: entity_type?. gives undefined for null
LogMatches(log, searchQuery) ==
  \/ includes(toLowerCase(log.action), toLowerCase(searchQuery))
  \/ log.entity_type # None
       /\ includes(toLowerCase(log.entity_type[1]), toLowerCase(searchQuery))

RECURSIVE filteredLogs(_, _)
filteredLogs(rows, searchQuery) ==
  IF rows = <<>> THEN <<>>
  ELSE (IF LogMatches(Head(rows), searchQuery) THEN <<Head(rows)>> ELSE <<>>)
         \o filteredLogs(Tail(rows), searchQuery)

\* the search texts the operator types in the model
SearchTexts ==
  {<<>>, <<"m", "a", "r">>, <<"M", "A", "R">>, <<"+", "7">>, <<"S", "y", "s">>}

\* the search input of UsersView: onChange -> setSearchQuery
SetUsersSearchQuery(q) ==
  /\ q # usersSearchQuery
  /\ usersSearchQuery' = q
  /\ UNCHANGED <<users, usersLoading, userTasks, usersForms, usersConsole>>
  /\ UNCHANGED <<toggleCount, clock>>
  /\ UNCHANGED <<backendVars, mapVars, mapHistory, logsVars>>
  /\ UNCHANGED <<sessionVars, lookupVars>>

\* the search input of LogsView: onChange -> setSearchQuery
SetLogsSearchQuery(q) ==
  /\ q # logsSearchQuery
  /\ logsSearchQuery' = q
  /\ UNCHANGED <<logs, logsLoading, filterLevel, logTasks, logsHistory>>
  /\ UNCHANGED <<backendVars, mapVars, mapHistory, usersVars, toggleCount, clock>>
  /\ UNCHANGED <<sessionVars, lookupVars>>

----------------------------------------------------------------------------
(* MapView *)

FetchTask(filter, origin) ==
  [op |-> "fetch", pc |-> "sent", filter |-> filter, origin |-> origin]

\* mutant: cleaned_at is stamped whatever the target is
StatusUpdates_AlwaysStamps(newStatus, now) ==
  [status |-> newStatus, updated_at |-> now, cleaned_at |-> Some(now)]

\* mutant: updated_at is not stamped
StatusUpdates_NoUpdatedAt(newStatus, now) ==
  IF newStatus = "cleaned"
  THEN [status |-> newStatus, cleaned_at |-> Some(now)]
  ELSE [status |-> newStatus]

\* mutant: a transition away from 'cleaned' clears cleaned_at
StatusUpdates_ClearsCleanedAt(newStatus, now) ==
  IF newStatus = "cleaned"
  THEN [status |-> newStatus, updated_at |-> now, cleaned_at |-> Some(now)]
  ELSE [status |-> newStatus, updated_at |-> now, cleaned_at |-> None]

\* the updates object of handleStatusChange
StatusUpdates(newStatus, now) ==
  IF newStatus = "cleaned"
  THEN [status |-> newStatus, updated_at |-> now, cleaned_at |-> Some(now)]
  ELSE [status |-> newStatus, updated_at |-> now]

\* mutant: the 'cleaned' button is rendered for a cleaned row too
StatusButtons_CleanedUnguarded(row) ==
  {t \in {"in_progress"} : row.status # "in_progress"}
    \cup {"cleaned"}
    \cup {t \in {"rejected"} : row.status # "rejected"}

\* mutant: a forward-only pipeline reported -> in_progress -> cleaned,
\* with 'rejected' offered for a row that is not cleaned
StatusButtons_Pipeline(row) ==
  {t \in {"in_progress"} : row.status = "reported"}
    \cup {t \in {"cleaned"} : row.status = "in_progress"}
    \cup {t \in {"rejected"} : row.status \in {"reported", "in_progress"}}

\* the targets of the buttons the detail panel renders for a row
StatusButtons(row) ==
  {t \in {"in_progress"} : row.status # "in_progress"}
    \cup {t \in {"cleaned"} : row.status # "cleaned"}
    \cup {t \in {"rejected"} : row.status # "rejected"}

\* select onChange -> setStatusFilter; the effect on [statusFilter] then
\* calls fetchLocations with the new filter
SetStatusFilter(f) ==
  /\ f # statusFilter
  /\ Len(mapTasks) < MaxTasks
  /\ statusFilter' = f
  /\ loading' = TRUE
  /\ mapTasks' = Append(mapTasks, FetchTask(f, "effect"))
  /\ UNCHANGED <<locations, selectedLocation, clock>>
  /\ UNCHANGED <<backendVars, mapHistory, usersVars, toggleCount, logsVars>>
  /\ UNCHANGED <<sessionVars, lookupVars>>

\* a click on the placemark of a fetched row opens the detail panel
ClickPlacemark(i) ==
  /\ i \in 1 .. Len(locations)
  /\ selectedLocation' = Some(locations[i])
  /\ UNCHANGED <<locations, loading, statusFilter, mapTasks, clock>>
  /\ UNCHANGED <<backendVars, mapHistory, usersVars, toggleCount, logsVars>>
  /\ UNCHANGED <<sessionVars, lookupVars>>

\* the close button of the detail panel
ClosePanel ==
  /\ selectedLocation # None
  /\ selectedLocation' = None
  /\ UNCHANGED <<locations, loading, statusFilter, mapTasks, clock>>
  /\ UNCHANGED <<backendVars, mapHistory, usersVars, toggleCount, logsVars>>
  /\ UNCHANGED <<sessionVars, lookupVars>>

\* handleStatusChange up to the await of the update request
HandleStatusChange(newStatus) ==
  /\ selectedLocation # None
  /\ newStatus \in StatusButtons(selectedLocation[1])
  /\ clock < MaxClock
  /\ Len(mapTasks) < MaxTasks
  /\ clock' = clock + 1
  /\ mapTasks' = Append(mapTasks,
       [op |-> "update", pc |-> "sent",
        locationId |-> selectedLocation[1].id,
        newStatus |-> newStatus,
        calledAt |-> clock',
        updates |-> StatusUpdates(newStatus, clock'),
        filter |-> statusFilter])
  /\ UNCHANGED <<locations, loading, statusFilter, selectedLocation>>
  /\ UNCHANGED <<backendVars, mapHistory, usersVars, toggleCount, logsVars>>
  /\ UNCHANGED <<sessionVars, lookupVars>>

\* mutant: the backend writes an audit entry for every accepted update
BackendUpdateLocation_Audits(i) ==
  /\ i \in 1 .. Len(mapTasks)
  /\ mapTasks[i].op = "update"
  /\ mapTasks[i].pc = "sent"
  /\ \E ok \in BOOLEAN :
       /\ mapTasks' = [mapTasks EXCEPT ![i] =
            [f \in DOMAIN @ \cup {"ok"} |->
               IF f = "ok" THEN ok ELSE IF f = "pc" THEN "replied" ELSE @[f]]]
       /\ IF ok
          THEN LET id == mapTasks[i].locationId
                   row == ApplyUpdate(trash_locations[id], mapTasks[i].updates)
               IN /\ trash_locations' = [trash_locations EXCEPT ![id] = row]
                  /\ system_logs' = Append(system_logs,
                       [id |-> Len(system_logs) + 1,
                        log_level |-> "info",
                        action |-> <<"u", "p", "d">>,
                        entity_type |-> Some(<<"l", "o", "c">>),
                        created_at |-> clock])
                  /\ everCleaned' =
                       [everCleaned EXCEPT ![id] = @ \/ row.status = "cleaned"]
                  /\ transitioned' = [transitioned EXCEPT ![id] = TRUE]
          ELSE UNCHANGED <<trash_locations, system_logs, mapHistory>>
  /\ UNCHANGED <<project_users, clock>>
  /\ UNCHANGED <<locations, loading, statusFilter, selectedLocation>>
  /\ UNCHANGED <<usersVars, toggleCount, logsVars>>
  /\ UNCHANGED <<sessionVars, lookupVars>>

\* the backend serves an update of trash_locations: it applies it, or
\* rejects it (authorization, network) and leaves the table alone
BackendUpdateLocation(i) ==
  /\ i \in 1 .. Len(mapTasks)
  /\ mapTasks[i].op = "update"
  /\ mapTasks[i].pc = "sent"
  /\ \E ok \in BOOLEAN :
       /\ mapTasks' = [mapTasks EXCEPT ![i] =
            [f \in DOMAIN @ \cup {"ok"} |->
               IF f = "ok" THEN ok ELSE IF f = "pc" THEN "replied" ELSE @[f]]]
       /\ IF ok
          THEN LET id == mapTasks[i].locationId
                   row == ApplyUpdate(trash_locations[id], mapTasks[i].updates)
               IN /\ trash_locations' = [trash_locations EXCEPT ![id] = row]
                  /\ everCleaned' =
                       [everCleaned EXCEPT ![id] = @ \/ row.status = "cleaned"]
                  /\ transitioned' = [transitioned EXCEPT ![id] = TRUE]
          ELSE UNCHANGED <<trash_locations, mapHistory>>
  /\ UNCHANGED <<project_users, system_logs, clock>>
  /\ UNCHANGED <<locations, loading, statusFilter, selectedLocation>>
  /\ UNCHANGED <<usersVars, toggleCount, logsVars>>
  /\ UNCHANGED <<sessionVars, lookupVars>>

\* the backend serves a query of trash_locations: the rows, or an error
BackendSelectLocations(i) ==
  /\ i \in 1 .. Len(mapTasks)
  /\ mapTasks[i].op = "fetch"
  /\ mapTasks[i].pc = "sent"
  /\ \E ok \in BOOLEAN :
       mapTasks' = [mapTasks EXCEPT ![i] =
         [op |-> "fetch", pc |-> "replied", filter |-> @.filter,
          origin |-> @.origin, ok |-> ok,
          data |-> IF ok THEN SelectLocations(@.filter) ELSE <<>>]]
  /\ UNCHANGED <<backendVars, mapHistory, clock>>
  /\ UNCHANGED <<locations, loading, statusFilter, selectedLocation>>
  /\ UNCHANGED <<usersVars, toggleCount, logsVars>>
  /\ UNCHANGED <<sessionVars, lookupVars>>

\* handleStatusChange after the await of the update: on an error the catch
\* logs it; otherwise fetchLocations is called, with the statusFilter of
\* the render whose button was clicked, and runs up to its own await
StatusUpdateReply(i) ==
  /\ i \in 1 .. Len(mapTasks)
  /\ mapTasks[i].op = "update"
  /\ mapTasks[i].pc = "replied"
  /\ IF mapTasks[i].ok
     THEN /\ loading' = TRUE
          /\ mapTasks' =
               [mapTasks EXCEPT ![i] = FetchTask(@.filter, "status")]
     ELSE /\ mapTasks' = RemoveAt(mapTasks, i)
          /\ UNCHANGED loading
  /\ UNCHANGED <<locations, statusFilter, selectedLocation, clock>>
  /\ UNCHANGED <<backendVars, mapHistory, usersVars, toggleCount, logsVars>>
  /\ UNCHANGED <<sessionVars, lookupVars>>

\* mutant: a failed fetch is sent again and the view stays in its loading
\* state
FetchLocationsReply_Retries(i) ==
  /\ i \in 1 .. Len(mapTasks)
  /\ mapTasks[i].op = "fetch"
  /\ mapTasks[i].pc = "replied"
  /\ IF mapTasks[i].ok
     THEN /\ locations' = mapTasks[i].data
          /\ loading' = FALSE
          /\ selectedLocation' =
               IF mapTasks[i].origin = "status" THEN None ELSE selectedLocation
          /\ mapTasks' = RemoveAt(mapTasks, i)
     ELSE /\ mapTasks' = [mapTasks EXCEPT ![i] = FetchTask(@.filter, @.origin)]
          /\ UNCHANGED <<locations, loading, selectedLocation>>
  /\ UNCHANGED <<statusFilter, clock>>
  /\ UNCHANGED <<backendVars, mapHistory, usersVars, toggleCount, logsVars>>
  /\ UNCHANGED <<sessionVars, lookupVars>>

\* mutant: the panel is refreshed in place instead of being closed
FetchLocationsReply_KeepsPanel(i) ==
  /\ i \in 1 .. Len(mapTasks)
  /\ mapTasks[i].op = "fetch"
  /\ mapTasks[i].pc = "replied"
  /\ locations' = IF mapTasks[i].ok THEN mapTasks[i].data ELSE locations
  /\ loading' = FALSE
  /\ selectedLocation' =
       IF /\ mapTasks[i].origin = "status"
          /\ selectedLocation # None
          /\ \E k \in 1 .. Len(locations') :
               locations'[k].id = selectedLocation[1].id
       THEN Some(locations'[CHOOSE k \in 1 .. Len(locations') :
                             locations'[k].id = selectedLocation[1].id])
       ELSE selectedLocation
  /\ mapTasks' = RemoveAt(mapTasks, i)
  /\ UNCHANGED <<statusFilter, clock>>
  /\ UNCHANGED <<backendVars, mapHistory, usersVars, toggleCount, logsVars>>
  /\ UNCHANGED <<sessionVars, lookupVars>>

\* fetchLocations after the await of the query (setLocations, or the
\* catch; then finally setLoading(false)), and, when handleStatusChange
\* awaited it, the setSelectedLocation(null) that follows
FetchLocationsReply(i) ==
  /\ i \in 1 .. Len(mapTasks)
  /\ mapTasks[i].op = "fetch"
  /\ mapTasks[i].pc = "replied"
  /\ locations' = IF mapTasks[i].ok THEN mapTasks[i].data ELSE locations
  /\ loading' = FALSE
  /\ selectedLocation' =
       IF mapTasks[i].origin = "status" THEN None ELSE selectedLocation
  /\ mapTasks' = RemoveAt(mapTasks, i)
  /\ UNCHANGED <<statusFilter, clock>>
  /\ UNCHANGED <<backendVars, mapHistory, usersVars, toggleCount, logsVars>>
  /\ UNCHANGED <<sessionVars, lookupVars>>

----------------------------------------------------------------------------
(* Specification of the Map view *)

BackendInit(seedStatus) ==
  /\ trash_locations = [i \in LocIds |-> SeedLocation(i, seedStatus[i])]
  /\ project_users = [i \in UserIds |-> SeedUser(i)]
  /\ system_logs = SeedLogs
  /\ everCleaned = [i \in LocIds |-> seedStatus[i] = "cleaned"]
  /\ transitioned = [i \in LocIds |-> FALSE]
  /\ toggleCount = [i \in UserIds |-> 0]
  /\ clock = 0

\* MapView after its mount: the state of useState and the first fetch
MapMounted ==
  /\ locations = <<>>
  /\ loading = TRUE
  /\ statusFilter = "all"
  /\ selectedLocation = None
  /\ mapTasks = <<FetchTask("all", "effect")>>

MapUnmounted ==
  /\ locations = <<>>
  /\ loading = TRUE
  /\ statusFilter = "all"
  /\ selectedLocation = None
  /\ mapTasks = <<>>

\* the initial value of newUserForm
EmptyNewUserForm == [email |-> <<>>, full_name |-> <<>>, phone |-> <<>>]

\* no row is edited and the add form is hidden
UsersFormsClosed ==
  /\ editingUser = None
  /\ editForm = None
  /\ showAddForm = FALSE
  /\ newUserForm = EmptyNewUserForm

UsersUnmounted ==
  /\ users = <<>>
  /\ usersLoading = TRUE
  /\ usersSearchQuery = <<>>
  /\ userTasks = <<>>
  /\ UsersFormsClosed
  /\ usersConsole = "none"

\* no fetch of LogsView was issued or handled
LogsHistoryInit ==
  /\ logsIssued = 0
  /\ logsHeld = 0
  /\ logsSeen = 0
  /\ logsOutcome = "none"

\* one browser runs the dashboard
SingleSession == otherSession = None

\* no lookup is called on its own
LookupIdle ==
  /\ lookupArg = ""
  /\ lookupName = "none"
  /\ lookupValue = None

LogsUnmounted ==
  /\ logs = <<>>
  /\ logsSearchQuery = <<>>
  /\ logsLoading = TRUE
  /\ filterLevel = "all"
  /\ logTasks = <<>>
  /\ LogsHistoryInit

Init ==
  /\ BackendInit([i \in LocIds |-> SeedStatusOf(i)])
  /\ MapMounted
  /\ UsersUnmounted
  /\ LogsUnmounted
  /\ SingleSession
  /\ LookupIdle

Next ==
  \/ \E f \in FilterChoices : SetStatusFilter(f)
  \/ \E i \in 1 .. NumSeed : ClickPlacemark(i)
  \/ ClosePanel
  \/ \E t \in Statuses : HandleStatusChange(t)
  \/ \E i \in 1 .. MaxTasks : BackendUpdateLocation(i)
  \/ \E i \in 1 .. MaxTasks : BackendSelectLocations(i)
  \/ \E i \in 1 .. MaxTasks : StatusUpdateReply(i)
  \/ \E i \in 1 .. MaxTasks : FetchLocationsReply(i)

Spec == Init /\ [][Next]_vars

----------------------------------------------------------------------------
(* Specification of the Map view with two clocks: created_at comes from   *)
(* the server's now(), the stamps of handleStatusChange from the browser  *)

\* the readings of the server's clock at the seed insert, on the scale of
\* the browser's clock: in step with it, or ahead of it
ServerSeedTimes == {0, MaxClock}

\* a seeded row whose DEFAULT now() columns were stamped at server time t
SeedLocationAt(i, st, t) ==
  [SeedLocation(i, st) EXCEPT !.created_at = t, !.updated_at = t]

InitClocks ==
  /\ \E t \in ServerSeedTimes :
       trash_locations = [i \in LocIds |-> SeedLocationAt(i, SeedStatusOf(i), t)]
  /\ project_users = [i \in UserIds |-> SeedUser(i)]
  /\ system_logs = SeedLogs
  /\ everCleaned = [i \in LocIds |-> SeedStatusOf(i) = "cleaned"]
  /\ transitioned = [i \in LocIds |-> FALSE]
  /\ toggleCount = [i \in UserIds |-> 0]
  /\ clock = 0
  /\ MapMounted
  /\ UsersUnmounted
  /\ LogsUnmounted
  /\ SingleSession
  /\ LookupIdle

SpecClocks == InitClocks /\ [][Next]_vars

----------------------------------------------------------------------------
(* UsersView *)

\* the query fetchUsers builds, run on the table
SelectUsers == OrderDesc({project_users[i] : i \in DOMAIN project_users})

\* fetchUsers up to the await of the query; origin is the caller that awaits
\* it: the mount effect, or the handler of a toggle, an edit or an add
UserFetchTask(origin) == [op |-> "fetch", pc |-> "sent", origin |-> origin]

\* editingUser?.id === id
Editing(id) == IF editingUser = None THEN FALSE ELSE editingUser[1].id = id

\* the table is rendered and can be clicked: the view is not loading and
\* the add form, an overlay over the whole page, is not shown
TableShown == ~usersLoading /\ ~showAddForm

\* the row with the id of the edited user is on screen, with its inputs and
\* its save and cancel buttons
EditRowShown ==
  /\ TableShown
  /\ editingUser # None
  /\ \E k \in 1 .. Len(filteredUsers(users, usersSearchQuery)) :
       filteredUsers(users, usersSearchQuery)[k].id = editingUser[1].id

\* the payload of handleToggleActive
ToggleUpdates(currentStatus, now) ==
  [is_active |-> ~currentStatus, updated_at |-> now]

\* the toggle button of row k of the table, which is shown when the table
\* is and the row is not the one being edited:
\* handleToggleActive(user.id, user.is_active) up to the await of the update
HandleToggleActive(k) ==
  /\ TableShown
  /\ k \in 1 .. Len(filteredUsers(users, usersSearchQuery))
  /\ ~Editing(filteredUsers(users, usersSearchQuery)[k].id)
  /\ clock < MaxClock
  /\ Len(userTasks) < MaxTasks
  /\ clock' = clock + 1
  /\ LET user == filteredUsers(users, usersSearchQuery)[k]
     IN userTasks' = Append(userTasks,
          [op |-> "update", pc |-> "sent",
           userId |-> user.id,
           calledAt |-> clock',
           updates |-> ToggleUpdates(user.is_active, clock')])
  /\ UNCHANGED <<users, usersLoading, usersSearchQuery, usersForms, toggleCount>>
  /\ UNCHANGED <<backendVars, mapVars, mapHistory, logsVars, usersConsole>>
  /\ UNCHANGED <<sessionVars, lookupVars>>

\* mutant: project_users has no UNIQUE constraint on email
EmailFree_Unchecked(id, payload) == TRUE

\* email text UNIQUE: no other row has the email of the payload
EmailFree(id, payload) ==
  "email" \in DOMAIN payload =>
    \A j \in DOMAIN project_users \ {id} :
      project_users[j].email # payload.email

\* the backend serves an update of project_users (of a toggle or an edit):
\* it applies it, or rejects it and leaves the table alone; an update that
\* breaks the UNIQUE constraint is rejected
BackendUpdateUser(i) ==
  /\ i \in 1 .. Len(userTasks)
  /\ userTasks[i].op \in {"update", "edit"}
  /\ userTasks[i].pc = "sent"
  /\ \E ok \in BOOLEAN :
       /\ ok => EmailFree(userTasks[i].userId, userTasks[i].updates)
       /\ userTasks' = [userTasks EXCEPT ![i] =
            [f \in DOMAIN @ \cup {"ok"} |->
               IF f = "ok" THEN ok ELSE IF f = "pc" THEN "replied" ELSE @[f]]]
       /\ IF ok
          THEN LET id == userTasks[i].userId
               IN /\ project_users' = [project_users EXCEPT ![id] =
                       ApplyUpdate(@, userTasks[i].updates)]
                  /\ toggleCount' =
                       IF userTasks[i].op = "update"
                       THEN [toggleCount EXCEPT ![id] = @ + 1]
                       ELSE toggleCount
          ELSE UNCHANGED <<project_users, toggleCount>>
  /\ UNCHANGED <<trash_locations, system_logs, clock>>
  /\ UNCHANGED <<users, usersLoading, usersSearchQuery, usersForms>>
  /\ UNCHANGED <<mapVars, mapHistory, logsVars, usersConsole>>
  /\ UNCHANGED <<sessionVars, lookupVars>>

\* the backend serves a query of project_users: the rows, or an error
BackendSelectUsers(i) ==
  /\ i \in 1 .. Len(userTasks)
  /\ userTasks[i].op = "fetch"
  /\ userTasks[i].pc = "sent"
  /\ \E ok \in BOOLEAN :
       userTasks' = [userTasks EXCEPT ![i] =
         [op |-> "fetch", pc |-> "replied", origin |-> @.origin, ok |-> ok,
          data |-> IF ok THEN SelectUsers ELSE <<>>]]
  /\ UNCHANGED <<backendVars, clock, toggleCount>>
  /\ UNCHANGED <<users, usersLoading, usersSearchQuery, usersForms>>
  /\ UNCHANGED <<mapVars, mapHistory, logsVars, usersConsole>>
  /\ UNCHANGED <<sessionVars, lookupVars>>

\* handleToggleActive after the await of the update: on an error the catch
\* logs it; otherwise fetchUsers is called and runs up to its own await
ToggleReply(i) ==
  /\ i \in 1 .. Len(userTasks)
  /\ userTasks[i].op = "update"
  /\ userTasks[i].pc = "replied"
  /\ IF userTasks[i].ok
     THEN /\ usersLoading' = TRUE
          /\ userTasks' = [userTasks EXCEPT ![i] = UserFetchTask("toggle")]
          /\ UNCHANGED usersConsole
     ELSE /\ userTasks' = RemoveAt(userTasks, i)
          /\ usersConsole' = "Error toggling user status:"
          /\ UNCHANGED usersLoading
  /\ UNCHANGED <<users, usersSearchQuery, usersForms, toggleCount, clock>>
  /\ UNCHANGED <<backendVars, mapVars, mapHistory, logsVars>>
  /\ UNCHANGED <<sessionVars, lookupVars>>

\* mutant: a failed fetch empties the list
FetchUsersReply_ClearsOnError(i) ==
  /\ i \in 1 .. Len(userTasks)
  /\ userTasks[i].op = "fetch"
  /\ userTasks[i].pc = "replied"
  /\ users' = IF userTasks[i].ok THEN userTasks[i].data ELSE <<>>
  /\ usersConsole' = IF userTasks[i].ok THEN usersConsole ELSE "Error fetching users:"
  /\ usersLoading' = FALSE
  /\ IF userTasks[i].origin = "edit"
     THEN editingUser' = None /\ editForm' = None
     ELSE UNCHANGED <<editingUser, editForm>>
  /\ IF userTasks[i].origin = "add"
     THEN showAddForm' = FALSE /\ newUserForm' = EmptyNewUserForm
     ELSE UNCHANGED <<showAddForm, newUserForm>>
  /\ userTasks' = RemoveAt(userTasks, i)
  /\ UNCHANGED <<usersSearchQuery, toggleCount, clock>>
  /\ UNCHANGED <<backendVars, mapVars, mapHistory, logsVars>>
  /\ UNCHANGED <<sessionVars, lookupVars>>

\* fetchUsers after the await of the query: setUsers, or the catch; then
\* finally setLoading(false); and, when handleSaveEdit or handleAddUser
\* awaited it, the closing and reset of the form that follows
FetchUsersReply(i) ==
  /\ i \in 1 .. Len(userTasks)
  /\ userTasks[i].op = "fetch"
  /\ userTasks[i].pc = "replied"
  /\ users' = IF userTasks[i].ok THEN userTasks[i].data ELSE users
  /\ usersConsole' = IF userTasks[i].ok THEN usersConsole ELSE "Error fetching users:"
  /\ usersLoading' = FALSE
  /\ IF userTasks[i].origin = "edit"
     THEN editingUser' = None /\ editForm' = None
     ELSE UNCHANGED <<editingUser, editForm>>
  /\ IF userTasks[i].origin = "add"
     THEN showAddForm' = FALSE /\ newUserForm' = EmptyNewUserForm
     ELSE UNCHANGED <<showAddForm, newUserForm>>
  /\ userTasks' = RemoveAt(userTasks, i)
  /\ UNCHANGED <<usersSearchQuery, toggleCount, clock>>
  /\ UNCHANGED <<backendVars, mapVars, mapHistory, logsVars>>
  /\ UNCHANGED <<sessionVars, lookupVars>>

\* the edit button of row k of the table, rendered for a row that is not
\* being edited: handleEditClick(user)
HandleEditClick(k) ==
  /\ TableShown
  /\ k \in 1 .. Len(filteredUsers(users, usersSearchQuery))
  /\ ~Editing(filteredUsers(users, usersSearchQuery)[k].id)
  /\ editingUser' = Some(filteredUsers(users, usersSearchQuery)[k])
  /\ editForm' = Some(filteredUsers(users, usersSearchQuery)[k])
  /\ UNCHANGED <<users, usersLoading, usersSearchQuery, userTasks>>
  /\ UNCHANGED <<showAddForm, newUserForm, toggleCount, clock>>
  /\ UNCHANGED <<backendVars, mapVars, mapHistory, logsVars, usersConsole>>
  /\ UNCHANGED <<sessionVars, lookupVars>>

\* what the operator types into the inputs of the edit row in the model
EditInputs == {[field |-> "full_name", value |-> <<"Z">>]}

\* an input of the edit row: onChange -> setEditForm({...editForm, f: v})
SetEditForm(f, v) ==
  /\ EditRowShown
  /\ editForm # None
  /\ editForm' = Some([editForm[1] EXCEPT ![f] =
                         IF f = "phone" THEN Some(v) ELSE v])
  /\ editForm' # editForm
  /\ UNCHANGED <<users, usersLoading, usersSearchQuery, userTasks>>
  /\ UNCHANGED <<editingUser, showAddForm, newUserForm, toggleCount, clock>>
  /\ UNCHANGED <<backendVars, mapVars, mapHistory, logsVars, usersConsole>>
  /\ UNCHANGED <<sessionVars, lookupVars>>

\* the cancel button of the edit row
CancelEdit ==
  /\ EditRowShown
  /\ editingUser' = None
  /\ editForm' = None
  /\ UNCHANGED <<users, usersLoading, usersSearchQuery, userTasks>>
  /\ UNCHANGED <<showAddForm, newUserForm, toggleCount, clock>>
  /\ UNCHANGED <<backendVars, mapVars, mapHistory, logsVars, usersConsole>>
  /\ UNCHANGED <<sessionVars, lookupVars>>

\* mutant: the payload holds only the fields the operator changed
EditUpdates_ChangedOnly(form, now) ==
  [f \in {g \in DOMAIN form : form[g] # editingUser[1][g]} \cup {"updated_at"} |->
     IF f = "updated_at" THEN now ELSE form[f]]

\* the payload of handleSaveEdit: {...editForm, updated_at}
EditUpdates(form, now) ==
  [f \in DOMAIN form \cup {"updated_at"} |->
     IF f = "updated_at" THEN now ELSE form[f]]

\* the save button of the edit row: handleSaveEdit up to the await of the
\* update request
HandleSaveEdit ==
  /\ EditRowShown
  /\ editForm # None
  /\ clock < MaxClock
  /\ Len(userTasks) < MaxTasks
  /\ clock' = clock + 1
  /\ userTasks' = Append(userTasks,
       [op |-> "edit", pc |-> "sent",
        userId |-> editingUser[1].id,
        calledAt |-> clock',
        updates |-> EditUpdates(editForm[1], clock')])
  /\ UNCHANGED <<users, usersLoading, usersSearchQuery, usersForms, toggleCount>>
  /\ UNCHANGED <<backendVars, mapVars, mapHistory, logsVars, usersConsole>>
  /\ UNCHANGED <<sessionVars, lookupVars>>

\* mutant: a rejected edit closes the edit row
SaveEditReply_ClosesOnError(i) ==
  /\ i \in 1 .. Len(userTasks)
  /\ userTasks[i].op = "edit"
  /\ userTasks[i].pc = "replied"
  /\ IF userTasks[i].ok
     THEN /\ usersLoading' = TRUE
          /\ userTasks' = [userTasks EXCEPT ![i] = UserFetchTask("edit")]
          /\ UNCHANGED usersConsole
          /\ UNCHANGED <<editingUser, editForm>>
     ELSE /\ userTasks' = RemoveAt(userTasks, i)
          /\ editingUser' = None
          /\ editForm' = None
          /\ usersConsole' = "Error updating user:"
          /\ UNCHANGED usersLoading
  /\ UNCHANGED <<users, usersSearchQuery, showAddForm, newUserForm>>
  /\ UNCHANGED <<toggleCount, clock>>
  /\ UNCHANGED <<backendVars, mapVars, mapHistory, logsVars>>
  /\ UNCHANGED <<sessionVars, lookupVars>>

\* handleSaveEdit after the await of the update: on an error the catch logs
\* it; otherwise fetchUsers is called and runs up to its own await
SaveEditReply(i) ==
  /\ i \in 1 .. Len(userTasks)
  /\ userTasks[i].op = "edit"
  /\ userTasks[i].pc = "replied"
  /\ IF userTasks[i].ok
     THEN /\ usersLoading' = TRUE
          /\ userTasks' = [userTasks EXCEPT ![i] = UserFetchTask("edit")]
          /\ UNCHANGED usersConsole
     ELSE /\ userTasks' = RemoveAt(userTasks, i)
          /\ usersConsole' = "Error updating user:"
          /\ UNCHANGED usersLoading
  /\ UNCHANGED <<users, usersSearchQuery, usersForms, toggleCount, clock>>
  /\ UNCHANGED <<backendVars, mapVars, mapHistory, logsVars>>
  /\ UNCHANGED <<sessionVars, lookupVars>>

\* the 'add user' button: setShowAddForm(true)
ClickAddUser ==
  /\ ~showAddForm
  /\ showAddForm' = TRUE
  /\ UNCHANGED <<users, usersLoading, usersSearchQuery, userTasks>>
  /\ UNCHANGED <<editingUser, editForm, newUserForm, toggleCount, clock>>
  /\ UNCHANGED <<backendVars, mapVars, mapHistory, logsVars, usersConsole>>
  /\ UNCHANGED <<sessionVars, lookupVars>>

\* what the operator types into the add form in the model
NewUserInputs ==
  {[field |-> "email", value |-> <<"n">>],
   [field |-> "full_name", value |-> <<"N">>]}

\* an input of the add form: onChange -> setNewUserForm({...newUserForm, f: v})
SetNewUserForm(f, v) ==
  /\ showAddForm
  /\ newUserForm' = [newUserForm EXCEPT ![f] = v]
  /\ newUserForm' # newUserForm
  /\ UNCHANGED <<users, usersLoading, usersSearchQuery, userTasks>>
  /\ UNCHANGED <<editingUser, editForm, showAddForm, toggleCount, clock>>
  /\ UNCHANGED <<backendVars, mapVars, mapHistory, logsVars, usersConsole>>
  /\ UNCHANGED <<sessionVars, lookupVars>>

\* the cancel button of the add form
CancelAdd ==
  /\ showAddForm
  /\ showAddForm' = FALSE
  /\ newUserForm' = EmptyNewUserForm
  /\ UNCHANGED <<users, usersLoading, usersSearchQuery, userTasks>>
  /\ UNCHANGED <<editingUser, editForm, toggleCount, clock>>
  /\ UNCHANGED <<backendVars, mapVars, mapHistory, logsVars, usersConsole>>
  /\ UNCHANGED <<sessionVars, lookupVars>>

\* the submit of the add form, which the browser lets through when the
\* required inputs email and full_name are filled: handleAddUser up to the
\* await of the insert request; the click happens at a later instant than
\* the click before, and the server stamps the row with that instant
HandleAddUser ==
  /\ showAddForm
  /\ newUserForm.email # <<>>
  /\ newUserForm.full_name # <<>>
  /\ clock < MaxClock
  /\ Len(userTasks) < MaxTasks
  /\ clock' = clock + 1
  /\ userTasks' = Append(userTasks,
       [op |-> "insert", pc |-> "sent", form |-> newUserForm])
  /\ UNCHANGED <<users, usersLoading, usersSearchQuery, usersForms>>
  /\ UNCHANGED toggleCount
  /\ UNCHANGED <<backendVars, mapVars, mapHistory, logsVars, usersConsole>>
  /\ UNCHANGED <<sessionVars, lookupVars>>

\* the row INSERT INTO project_users stores for a form: the columns of the
\* form, and the defaults of the table for the others
InsertedUser(id, form, now) ==
  [id |-> id,
   email |-> form.email,
   full_name |-> form.full_name,
   phone |-> Some(form.phone),
   is_active |-> TRUE,
   reports_count |-> 0,
   created_at |-> now,
   updated_at |-> now]

\* the backend serves an insert into project_users: it stores the row under
\* a fresh id, or rejects it and leaves the table alone; an insert that
\* breaks the UNIQUE constraint is rejected
BackendInsertUser(i) ==
  /\ i \in 1 .. Len(userTasks)
  /\ userTasks[i].op = "insert"
  /\ userTasks[i].pc = "sent"
  /\ \E ok \in BOOLEAN :
       /\ ok => /\ Cardinality(DOMAIN project_users) < NumSeed + MaxInserts
                /\ \A j \in DOMAIN project_users :
                     project_users[j].email # userTasks[i].form.email
       /\ userTasks' = [userTasks EXCEPT ![i] =
            [op |-> "insert", pc |-> "replied", form |-> @.form, ok |-> ok]]
       /\ IF ok
          THEN LET id == Cardinality(DOMAIN project_users) + 1
               IN /\ project_users' = project_users @@
                       (id :> InsertedUser(id, userTasks[i].form, clock))
                  /\ toggleCount' = toggleCount @@ (id :> 0)
          ELSE UNCHANGED <<project_users, toggleCount>>
  /\ UNCHANGED <<trash_locations, system_logs, clock>>
  /\ UNCHANGED <<users, usersLoading, usersSearchQuery, usersForms>>
  /\ UNCHANGED <<mapVars, mapHistory, logsVars, usersConsole>>
  /\ UNCHANGED <<sessionVars, lookupVars>>

\* mutant: fetchUsers is called in a finally, after a rejected insert too
AddReply_RefetchAlways(i) ==
  /\ i \in 1 .. Len(userTasks)
  /\ userTasks[i].op = "insert"
  /\ userTasks[i].pc = "replied"
  /\ usersLoading' = TRUE
  /\ userTasks' = [userTasks EXCEPT ![i] =
       UserFetchTask(IF userTasks[i].ok THEN "add" ELSE "toggle")]
  /\ UNCHANGED <<users, usersSearchQuery, usersForms, toggleCount, clock>>
  /\ UNCHANGED <<backendVars, mapVars, mapHistory, logsVars, usersConsole>>
  /\ UNCHANGED <<sessionVars, lookupVars>>

\* handleAddUser after the await of the insert: on an error the catch logs
\* it; otherwise fetchUsers is called and runs up to its own await
AddReply(i) ==
  /\ i \in 1 .. Len(userTasks)
  /\ userTasks[i].op = "insert"
  /\ userTasks[i].pc = "replied"
  /\ IF userTasks[i].ok
     THEN /\ usersLoading' = TRUE
          /\ userTasks' = [userTasks EXCEPT ![i] = UserFetchTask("add")]
          /\ UNCHANGED usersConsole
     ELSE /\ userTasks' = RemoveAt(userTasks, i)
          /\ usersConsole' = "Error adding user:"
          /\ UNCHANGED usersLoading
  /\ UNCHANGED <<users, usersSearchQuery, usersForms, toggleCount, clock>>
  /\ UNCHANGED <<backendVars, mapVars, mapHistory, logsVars>>
  /\ UNCHANGED <<sessionVars, lookupVars>>

----------------------------------------------------------------------------
(* Specification of the Users view *)

\* UsersView after its mount: the state of useState and the first fetch
UsersMounted ==
  /\ users = <<>>
  /\ usersLoading = TRUE
  /\ usersSearchQuery = <<>>
  /\ userTasks = <<UserFetchTask("effect")>>
  /\ UsersFormsClosed
  /\ usersConsole = "none"

InitUsers ==
  /\ BackendInit([i \in LocIds |-> SeedStatusOf(i)])
  /\ MapUnmounted
  /\ UsersMounted
  /\ LogsUnmounted
  /\ SingleSession
  /\ LookupIdle

NextUsers ==
  \/ \E q \in {<<>>, <<"m", "a", "r">>} : SetUsersSearchQuery(q)
  \/ \E k \in 1 .. NumSeed : HandleToggleActive(k)
  \/ \E i \in 1 .. MaxTasks : BackendUpdateUser(i)
  \/ \E i \in 1 .. MaxTasks : BackendSelectUsers(i)
  \/ \E i \in 1 .. MaxTasks : ToggleReply(i)
  \/ \E i \in 1 .. MaxTasks : FetchUsersReply(i)

SpecUsers == InitUsers /\ [][NextUsers]_vars

\* the Users view with its edit row and its add form
NextUsersForms ==
  \/ \E k \in 1 .. NumSeed + MaxInserts : HandleToggleActive(k)
  \/ \E k \in 1 .. NumSeed + MaxInserts : HandleEditClick(k)
  \/ \E in \in EditInputs : SetEditForm(in.field, in.value)
  \/ CancelEdit
  \/ HandleSaveEdit
  \/ ClickAddUser
  \/ \E in \in NewUserInputs : SetNewUserForm(in.field, in.value)
  \/ CancelAdd
  \/ HandleAddUser
  \/ \E i \in 1 .. MaxTasks : BackendUpdateUser(i)
  \/ \E i \in 1 .. MaxTasks : BackendInsertUser(i)
  \/ \E i \in 1 .. MaxTasks : BackendSelectUsers(i)
  \/ \E i \in 1 .. MaxTasks : ToggleReply(i)
  \/ \E i \in 1 .. MaxTasks : SaveEditReply(i)
  \/ \E i \in 1 .. MaxTasks : AddReply(i)
  \/ \E i \in 1 .. MaxTasks : FetchUsersReply(i)

SpecUsersForms == InitUsers /\ [][NextUsersForms]_vars


\* the Users view with emails typed into the edit row and the add form: the
\* email of a seeded user, and an email no seeded user has
EmailEditInputs ==
  {[field |-> "email", value |-> SeedUser(2).email],
   [field |-> "email", value |-> <<"n">>]}

EmailNewInputs ==
  {[field |-> "email", value |-> SeedUser(1).email],
   [field |-> "email", value |-> <<"n">>],
   [field |-> "full_name", value |-> <<"N">>]}

NextEmails ==
  \/ \E k \in 1 .. NumSeed + MaxInserts : HandleEditClick(k)
  \/ \E in \in EmailEditInputs : SetEditForm(in.field, in.value)
  \/ HandleSaveEdit
  \/ ClickAddUser
  \/ \E in \in EmailNewInputs : SetNewUserForm(in.field, in.value)
  \/ HandleAddUser
  \/ \E i \in 1 .. MaxTasks : BackendUpdateUser(i)
  \/ \E i \in 1 .. MaxTasks : BackendInsertUser(i)
  \/ \E i \in 1 .. MaxTasks : BackendSelectUsers(i)
  \/ \E i \in 1 .. MaxTasks : SaveEditReply(i)
  \/ \E i \in 1 .. MaxTasks : AddReply(i)
  \/ \E i \in 1 .. MaxTasks : FetchUsersReply(i)

SpecEmails == InitUsers /\ [][NextEmails]_vars

----------------------------------------------------------------------------
(* Two browser sessions of the Users view on the same backend.  Both run   *)
(* the code of UsersView; the model runs the handlers of one session on    *)
(* the UsersView variables and keeps the state of the other session aside. *)
(* The clocks of the two browsers are in step.                             *)

\* the state of UsersView in the session that is running
SessionState ==
  [users |-> users,
   usersLoading |-> usersLoading,
   usersSearchQuery |-> usersSearchQuery,
   userTasks |-> userTasks,
   editingUser |-> editingUser,
   editForm |-> editForm,
   showAddForm |-> showAddForm,
   newUserForm |-> newUserForm,
   usersConsole |-> usersConsole]

\* the next handler or response to run belongs to the other session: its
\* state is taken up and the state of the session that ran is put aside
SwitchSession ==
  /\ otherSession # None
  /\ otherSession[1] # SessionState
  /\ otherSession' = Some(SessionState)
  /\ users' = otherSession[1].users
  /\ usersLoading' = otherSession[1].usersLoading
  /\ usersSearchQuery' = otherSession[1].usersSearchQuery
  /\ userTasks' = otherSession[1].userTasks
  /\ editingUser' = otherSession[1].editingUser
  /\ editForm' = otherSession[1].editForm
  /\ showAddForm' = otherSession[1].showAddForm
  /\ newUserForm' = otherSession[1].newUserForm
  /\ usersConsole' = otherSession[1].usersConsole
  /\ UNCHANGED <<backendVars, clock, toggleCount>>
  /\ UNCHANGED <<mapVars, mapHistory, logsVars, lookupVars>>

\* what the two editors type into the inputs of their edit rows in the model
EditorInputs ==
  {[field |-> "full_name", value |-> <<"Z">>],
   [field |-> "phone", value |-> <<"9">>]}

\* UsersView after its first fetch was applied
UsersLoaded ==
  /\ users = SelectUsers
  /\ usersLoading = FALSE
  /\ usersSearchQuery = <<>>
  /\ userTasks = <<>>
  /\ UsersFormsClosed
  /\ usersConsole = "none"

\* both browsers have mounted UsersView and hold the same fetched list
InitEditors ==
  /\ BackendInit([i \in LocIds |-> SeedStatusOf(i)])
  /\ MapUnmounted
  /\ UsersLoaded
  /\ LogsUnmounted
  /\ otherSession = Some(SessionState)
  /\ LookupIdle

NextEditors ==
  \/ SwitchSession
  \/ \E k \in 1 .. EditorRows : HandleEditClick(k)
  \/ \E in \in EditorInputs : SetEditForm(in.field, in.value)
  \/ HandleSaveEdit
  \/ \E i \in 1 .. MaxTasks : BackendUpdateUser(i)
  \/ \E i \in 1 .. MaxTasks : BackendSelectUsers(i)
  \/ \E i \in 1 .. MaxTasks : SaveEditReply(i)
  \/ \E i \in 1 .. MaxTasks : FetchUsersReply(i)

SpecEditors == InitEditors /\ [][NextEditors]_vars

----------------------------------------------------------------------------
(* LogsView *)

LogLevels == {"info", "warning", "error", "critical"}
\* the options of the level filter the operator picks in the model
LevelChoices == {"all", "error", "critical"}

\* .limit(100)
LogsLimit == 100

\* a system_logs table of n entries, inserted one after the other, none of
\* them critical
LogTable(n) ==
  [i \in 1 .. n |->
     [id |-> i,
      log_level |-> IF i % 3 = 1 THEN "info"
                    ELSE IF i % 3 = 2 THEN "warning" ELSE "error",
      action |-> <<"a">>,
      entity_type |-> None,
      created_at |-> i]]

\* the tables LogsView is run on
LogTables == {SeedLogs, LogTable(0), LogTable(LogsLimit), LogTable(MaxLogs)}

\* row r comes before row q under ORDER BY created_at DESC (ties: lowest id)
Before(r, q) ==
  \/ r.created_at > q.created_at
  \/ r.created_at = q.created_at /\ r.id < q.id

\* the entries of system_logs that pass WHERE log_level = level (every
\* entry when level is 'all'), newest first: each at its rank in the order
OrderedLogs(level) ==
  LET ids == {i \in DOMAIN system_logs :
                level = "all" \/ system_logs[i].log_level = level}
      ranked == {<<1 + Cardinality({j \in ids :
                         Before(system_logs[j], system_logs[i])}), i>>
                   : i \in ids}
  IN [k \in 1 .. Cardinality(ids) |->
        system_logs[(CHOOSE p \in ranked : p[1] = k)[2]]]

Limit(rows, n) == SubSeq(rows, 1, IF Len(rows) < n THEN Len(rows) ELSE n)

\* mutant: the query has no .limit
SelectLogs_NoLimit(level) == OrderedLogs(level)

\* mutant: the query has no .eq('log_level', ...)
SelectLogs_AnyLevel(level) ==
  Limit(OrderedLogs("all"), LogsLimit)

\* the query fetchLogs builds, run on the table
SelectLogs(level) == Limit(OrderedLogs(level), LogsLimit)

\* fetchLogs up to the await of the query, for the filterLevel of the
\* render that runs the effect
LogFetchTask(level, n) ==
  [op |-> "fetch", pc |-> "sent", level |-> level, seq |-> n]

\* select onChange -> setFilterLevel; the effect on [filterLevel] then calls
\* fetchLogs with the new level
SetFilterLevel(l) ==
  /\ l # filterLevel
  /\ Len(logTasks) < MaxTasks
  /\ logsIssued < MaxFetches
  /\ filterLevel' = l
  /\ logsLoading' = TRUE
  /\ logsIssued' = logsIssued + 1
  /\ logTasks' = Append(logTasks, LogFetchTask(l, logsIssued'))
  /\ UNCHANGED <<logs, logsSearchQuery, logsHeld, logsSeen, logsOutcome>>
  /\ UNCHANGED <<backendVars, mapVars, mapHistory, usersVars, toggleCount, clock>>
  /\ UNCHANGED <<sessionVars, lookupVars>>

\* the backend serves a query of system_logs: the rows, or an error
BackendSelectLogs(i) ==
  /\ i \in 1 .. Len(logTasks)
  /\ logTasks[i].pc = "sent"
  /\ \E ok \in BOOLEAN :
       logTasks' = [logTasks EXCEPT ![i] =
         [op |-> "fetch", pc |-> "replied", level |-> @.level, seq |-> @.seq,
          ok |-> ok, data |-> IF ok THEN SelectLogs(@.level) ELSE <<>>]]
  /\ UNCHANGED <<logs, logsSearchQuery, logsLoading, filterLevel, logsHistory>>
  /\ UNCHANGED <<backendVars, mapVars, mapHistory, usersVars, toggleCount, clock>>
  /\ UNCHANGED <<sessionVars, lookupVars>>

\* mutant: a response of no rows is thrown as an error
FetchLogsReply_EmptyIsError(i) ==
  /\ i \in 1 .. Len(logTasks)
  /\ logTasks[i].pc = "replied"
  /\ IF logTasks[i].ok /\ logTasks[i].data # <<>>
     THEN /\ logs' = logTasks[i].data
          /\ logsHeld' = logTasks[i].seq
          /\ logsSeen' = IF logTasks[i].seq > logsSeen
                         THEN logTasks[i].seq ELSE logsSeen
          /\ logsOutcome' = "applied"
     ELSE /\ logsOutcome' = "error"
          /\ UNCHANGED <<logs, logsHeld, logsSeen>>
  /\ logsLoading' = FALSE
  /\ logTasks' = RemoveAt(logTasks, i)
  /\ UNCHANGED <<logsSearchQuery, filterLevel, logsIssued>>
  /\ UNCHANGED <<backendVars, mapVars, mapHistory, usersVars, toggleCount, clock>>
  /\ UNCHANGED <<sessionVars, lookupVars>>

\* mutant: a response is dropped when a newer request has been issued
FetchLogsReply_Guarded(i) ==
  /\ i \in 1 .. Len(logTasks)
  /\ logTasks[i].pc = "replied"
  /\ IF logTasks[i].ok /\ logTasks[i].seq = logsIssued
     THEN /\ logs' = logTasks[i].data
          /\ logsHeld' = logTasks[i].seq
          /\ logsSeen' = IF logTasks[i].seq > logsSeen
                         THEN logTasks[i].seq ELSE logsSeen
          /\ logsOutcome' = "applied"
     ELSE /\ logsOutcome' = IF logTasks[i].ok THEN logsOutcome ELSE "error"
          /\ UNCHANGED <<logs, logsHeld, logsSeen>>
  /\ logsLoading' = FALSE
  /\ logTasks' = RemoveAt(logTasks, i)
  /\ UNCHANGED <<logsSearchQuery, filterLevel, logsIssued>>
  /\ UNCHANGED <<backendVars, mapVars, mapHistory, usersVars, toggleCount, clock>>
  /\ UNCHANGED <<sessionVars, lookupVars>>

\* mutant: a failed fetch resets the level filter
FetchLogsReply_ResetsLevel(i) ==
  /\ i \in 1 .. Len(logTasks)
  /\ logTasks[i].pc = "replied"
  /\ IF logTasks[i].ok
     THEN /\ logs' = logTasks[i].data
          /\ logsHeld' = logTasks[i].seq
          /\ logsSeen' = IF logTasks[i].seq > logsSeen
                         THEN logTasks[i].seq ELSE logsSeen
          /\ logsOutcome' = "applied"
          /\ UNCHANGED filterLevel
     ELSE /\ logsOutcome' = "error"
          /\ filterLevel' = "all"
          /\ UNCHANGED <<logs, logsHeld, logsSeen>>
  /\ logsLoading' = FALSE
  /\ logTasks' = RemoveAt(logTasks, i)
  /\ UNCHANGED <<logsSearchQuery, logsIssued>>
  /\ UNCHANGED <<backendVars, mapVars, mapHistory, usersVars, toggleCount, clock>>
  /\ UNCHANGED <<sessionVars, lookupVars>>

\* fetchLogs after the await of the query: setLogs(data || []), or the
\* catch with its console.error; then finally setLoading(false)
FetchLogsReply(i) ==
  /\ i \in 1 .. Len(logTasks)
  /\ logTasks[i].pc = "replied"
  /\ IF logTasks[i].ok
     THEN /\ logs' = logTasks[i].data
          /\ logsHeld' = logTasks[i].seq
          /\ logsSeen' = IF logTasks[i].seq > logsSeen
                         THEN logTasks[i].seq ELSE logsSeen
          /\ logsOutcome' = "applied"
     ELSE /\ logsOutcome' = "error"
          /\ UNCHANGED <<logs, logsHeld, logsSeen>>
  /\ logsLoading' = FALSE
  /\ logTasks' = RemoveAt(logTasks, i)
  /\ UNCHANGED <<logsSearchQuery, filterLevel, logsIssued>>
  /\ UNCHANGED <<backendVars, mapVars, mapHistory, usersVars, toggleCount, clock>>
  /\ UNCHANGED <<sessionVars, lookupVars>>

----------------------------------------------------------------------------
(* Specification of the Logs view *)

\* LogsView after its mount: the state of useState and the first fetch
LogsMounted ==
  /\ logs = <<>>
  /\ logsSearchQuery = <<>>
  /\ logsLoading = TRUE
  /\ filterLevel = "all"
  /\ logTasks = <<LogFetchTask("all", 1)>>
  /\ logsIssued = 1
  /\ logsHeld = 0
  /\ logsSeen = 0
  /\ logsOutcome = "none"

InitLogs ==
  /\ trash_locations = [i \in LocIds |-> SeedLocation(i, SeedStatusOf(i))]
  /\ project_users = [i \in UserIds |-> SeedUser(i)]
  /\ system_logs \in LogTables
  /\ everCleaned = [i \in LocIds |-> SeedStatusOf(i) = "cleaned"]
  /\ transitioned = [i \in LocIds |-> FALSE]
  /\ toggleCount = [i \in UserIds |-> 0]
  /\ clock = 0
  /\ MapUnmounted
  /\ UsersUnmounted
  /\ LogsMounted
  /\ SingleSession
  /\ LookupIdle

NextLogs ==
  \/ \E l \in LevelChoices : SetFilterLevel(l)
  \/ \E q \in {<<>>, <<"S", "y", "s">>} : SetLogsSearchQuery(q)
  \/ \E i \in 1 .. MaxTasks : BackendSelectLogs(i)
  \/ \E i \in 1 .. MaxTasks : FetchLogsReply(i)

SpecLogs == InitLogs /\ [][NextLogs]_vars

----------------------------------------------------------------------------
(* Specification of the dashboard: it renders one of the three views, the *)
(* one the operator opened, and the other two are not mounted             *)

InitViews == Init \/ InitUsers \/ InitLogs

NextViews ==
  \/ UsersUnmounted /\ LogsUnmounted /\ Next
  \/ MapUnmounted /\ LogsUnmounted /\ NextUsersForms
  \/ MapUnmounted /\ UsersUnmounted /\ NextLogs

SpecViews == InitViews /\ [][NextViews]_vars


\* every backend call resolves or rejects, and the runtime then runs the
\* code that awaited it: the request of each slot of a view's task list is
\* served, and its continuation is run, if it stays ready
BackendResponds ==
  \A i \in 1 .. MaxTasks :
    /\ WF_vars(BackendUpdateLocation(i))
    /\ WF_vars(BackendSelectLocations(i))
    /\ WF_vars(StatusUpdateReply(i))
    /\ WF_vars(FetchLocationsReply(i))
    /\ WF_vars(BackendUpdateUser(i))
    /\ WF_vars(BackendSelectUsers(i))
    /\ WF_vars(ToggleReply(i))
    /\ WF_vars(FetchUsersReply(i))
    /\ WF_vars(BackendSelectLogs(i))
    /\ WF_vars(FetchLogsReply(i))

\* the steps of the Map view whose operator opens the panel of the first
\* marker only, marks its record cleaned and never closes the panel by hand
NextMapResponsive ==
  \/ \E f \in FilterChoices : SetStatusFilter(f)
  \/ ClickPlacemark(1)
  \/ HandleStatusChange("cleaned")
  \/ \E i \in 1 .. MaxTasks : BackendUpdateLocation(i)
  \/ \E i \in 1 .. MaxTasks : BackendSelectLocations(i)
  \/ \E i \in 1 .. MaxTasks : StatusUpdateReply(i)
  \/ \E i \in 1 .. MaxTasks : FetchLocationsReply(i)

\* the steps of the view the dashboard renders, the toggle being the
\* mutation of the Users view
NextResponsive ==
  \/ UsersUnmounted /\ LogsUnmounted /\ NextMapResponsive
  \/ MapUnmounted /\ LogsUnmounted /\ NextUsers
  \/ MapUnmounted /\ UsersUnmounted /\ NextLogs

SpecResponsive == InitViews /\ [][NextResponsive]_vars /\ BackendResponds

----------------------------------------------------------------------------
(* The label and color lookups of MapView.  The display strings of the    *)
(* source are Russian; they are written here in Latin letters.            *)

TrashTypes ==
  {"plastic", "metal", "glass", "organic", "electronic", "mixed", "other"}
Priorities == {"low", "medium", "high"}

\* the names every object literal inherits from Object.prototype
ObjectPrototype ==
  {"constructor", "toString", "toLocaleString", "valueOf", "hasOwnProperty",
   "isPrototypeOf", "propertyIsEnumerable", "__proto__"}

\* what an inherited member (a function, or the prototype object) stands
\* for in the model: a value that is truthy and is no label of a table
NativeMember == "[native code]"

\* obj[key] for an object literal: the own property, or the member the
\* literal inherits, or undefined (None)
Member(obj, key) ==
  IF key \in DOMAIN obj THEN Some(obj[key])
  ELSE IF key \in ObjectPrototype THEN Some(NativeMember)
  ELSE None

\* a || b: a when it is truthy (neither undefined nor the empty string)
OrElse(a, b) == IF a # None /\ a # Some("") THEN a[1] ELSE b

getMarkerPreset(status) ==
  CASE status = "reported" -> "islands#redIcon"
    [] status = "in_progress" -> "islands#blueIcon"
    [] status = "cleaned" -> "islands#greenIcon"
    [] status = "rejected" -> "islands#grayIcon"
    [] OTHER -> "islands#redIcon"

\* the labels object of getTrashTypeLabel
TrashTypeLabels ==
  [plastic |-> "Plastik",
   metal |-> "Metall",
   glass |-> "Steklo",
   organic |-> "Organika",
   electronic |-> "Elektronika",
   mixed |-> "Smeshannyi",
   other |-> "Drugoe"]

\* mutant: no fallback for a type the table lacks
getTrashTypeLabel_NoFallback(type) ==
  OrElse(Member(TrashTypeLabels, type), "")

getTrashTypeLabel(type) == OrElse(Member(TrashTypeLabels, type), type)

\* the labels object of getStatusLabel
StatusLabels ==
  [reported |-> "Soobshcheno",
   in_progress |-> "V rabote",
   cleaned |-> "Ochishcheno",
   rejected |-> "Otkloneno"]

getStatusLabel(status) == OrElse(Member(StatusLabels, status), status)

getStatusBadgeColor(status) ==
  CASE status = "reported" -> "bg-red-100 text-red-800"
    [] status = "in_progress" -> "bg-blue-100 text-blue-800"
    [] status = "cleaned" -> "bg-green-100 text-green-800"
    [] status = "rejected" -> "bg-gray-100 text-gray-800"
    [] OTHER -> "bg-gray-100 text-gray-800"

getPriorityBadgeColor(priority) ==
  CASE priority = "high" -> "bg-red-100 text-red-800"
    [] priority = "medium" -> "bg-yellow-100 text-yellow-800"
    [] priority = "low" -> "bg-green-100 text-green-800"
    [] OTHER -> "bg-gray-100 text-gray-800"

\* the labels object of getPriorityLabel
PriorityLabels ==
  [high |-> "Vysokii", medium |-> "Srednii", low |-> "Nizkii"]

getPriorityLabel(priority) == OrElse(Member(PriorityLabels, priority), priority)

LookupNames ==
  {"getMarkerPreset", "getTrashTypeLabel", "getStatusLabel",
   "getStatusBadgeColor", "getPriorityBadgeColor", "getPriorityLabel"}

\* the strings the lookups are called with in the model: the values of the
\* three enums, and strings no enum has
LookupArgs ==
  Statuses \cup TrashTypes \cup Priorities \cup {"unknown", "", "constructor"}

\* the call name(arg)
Lookup(name, arg) ==
  CASE name = "getMarkerPreset" -> getMarkerPreset(arg)
    [] name = "getTrashTypeLabel" -> getTrashTypeLabel(arg)
    [] name = "getStatusLabel" -> getStatusLabel(arg)
    [] name = "getStatusBadgeColor" -> getStatusBadgeColor(arg)
    [] name = "getPriorityBadgeColor" -> getPriorityBadgeColor(arg)
    [] name = "getPriorityLabel" -> getPriorityLabel(arg)

\* one of the lookups is called with the string
CallLookup(name) ==
  /\ lookupName' = name
  /\ lookupValue' = Some(Lookup(name, lookupArg))
  /\ UNCHANGED lookupArg
  /\ UNCHANGED <<backendVars, clock, toggleCount, sessionVars>>
  /\ UNCHANGED <<mapVars, mapHistory, usersVars, logsVars>>

InitLookups ==
  /\ BackendInit([i \in LocIds |-> SeedStatusOf(i)])
  /\ MapUnmounted
  /\ UsersUnmounted
  /\ LogsUnmounted
  /\ SingleSession
  /\ lookupArg \in LookupArgs
  /\ lookupName = "none"
  /\ lookupValue = None

NextLookups == \E name \in LookupNames : CallLookup(name)

SpecLookups == InitLookups /\ [][NextLookups]_vars

----------------------------------------------------------------------------
(* Specification of the search filters on their own: the views hold any  *)
(* rows of a pool, in any order, and the operator types search texts     *)

\* a user with an upper-case name and no phone, beside the seeded users
PoolUser ==
  [id |-> 4, email |-> <<"o", "4">>, full_name |-> <<"O", "M", "A", "R">>,
   phone |-> None, is_active |-> TRUE, reports_count |-> 0,
   created_at |-> 0, updated_at |-> 0]

UserPool == {SeedUser(1), SeedUser(2), SeedUser(3), PoolUser}

\* a log entry without entity_type, beside the seeded entries
PoolLog ==
  [id |-> 3, log_level |-> "warning", action |-> <<"M", "a", "r", "k">>,
   entity_type |-> None, created_at |-> 0]

LogPool == {SeedLogs[1], SeedLogs[2], PoolLog}

\* the sequences of at most n distinct rows of a pool
ListsOf(pool, n) ==
  UNION {{s \in [1 .. m -> pool] : \A a, b \in 1 .. m : a # b => s[a] # s[b]}
           : m \in 0 .. n}

InitFilter ==
  /\ BackendInit([i \in LocIds |-> SeedStatusOf(i)])
  /\ MapUnmounted
  /\ users \in ListsOf(UserPool, MaxRows)
  /\ usersLoading = FALSE
  /\ usersSearchQuery = <<>>
  /\ userTasks = <<>>
  /\ UsersFormsClosed
  /\ usersConsole = "none"
  /\ logs \in ListsOf(LogPool, MaxRows)
  /\ logsSearchQuery = <<>>
  /\ logsLoading = FALSE
  /\ filterLevel = "all"
  /\ logTasks = <<>>
  /\ LogsHistoryInit
  /\ SingleSession
  /\ LookupIdle

NextFilter ==
  \/ \E q \in SearchTexts : SetUsersSearchQuery(q)
  \/ \E q \in SearchTexts : SetLogsSearchQuery(q)

SpecFilter == InitFilter /\ [][NextFilter]_vars

----------------------------------------------------------------------------
(* Steps of the Map view, told from the task list before and after *)

\* the step is the backend accepting the update request of task i
UpdateAccepted(i) ==
  /\ mapTasks[i].op = "update"
  /\ mapTasks[i].pc = "sent"
  /\ Len(mapTasks') = Len(mapTasks)
  /\ mapTasks'[i].op = "update"
  /\ mapTasks'[i].pc = "replied"
  /\ mapTasks'[i].ok

\* the step is the view running the continuation of task i
Continued(i) ==
  /\ mapTasks[i].pc = "replied"
  /\ \/ mapTasks' = RemoveAt(mapTasks, i)
     \/ Len(mapTasks') = Len(mapTasks) /\ mapTasks'[i] # mapTasks[i]

PanelOpen == selectedLocation # None

----------------------------------------------------------------------------
(* Claims about the status workflow of the Map view *)

\* C1: a status transition of the Map view changes, in the table, only the
\* targeted row, and of it only status, updated_at and cleaned_at;
\* cleaned_at is untouched unless the target is 'cleaned'; project_users
\* and system_logs are untouched; and nothing but an accepted status update
\* changes a table.
C1_TransitionFrame ==
  [][/\ \A i \in 1 .. Len(mapTasks) : UpdateAccepted(i) =>
          LET id == mapTasks[i].locationId
              old == trash_locations[id]
              new == trash_locations'[id]
          IN /\ DOMAIN trash_locations' = DOMAIN trash_locations
             /\ DOMAIN new = DOMAIN old
             /\ \A f \in DOMAIN old \ {"status", "updated_at", "cleaned_at"} :
                  new[f] = old[f]
             /\ mapTasks[i].newStatus # "cleaned" =>
                  new.cleaned_at = old.cleaned_at
             /\ \A j \in DOMAIN trash_locations \ {id} :
                  trash_locations'[j] = trash_locations[j]
             /\ UNCHANGED <<project_users, system_logs>>
     /\ backendVars' # backendVars =>
          \E i \in 1 .. Len(mapTasks) : UpdateAccepted(i)
    ]_vars

\* C1 witness: a row was moved to 'rejected' while another row was never
\* transitioned
C1_Witness ==
  \E id \in LocIds :
    /\ transitioned[id]
    /\ trash_locations[id].status = "rejected"
    /\ \E j \in LocIds \ {id} : ~transitioned[j]

\* C2: when the backend accepts the update of handleStatusChange(id,
\* target), the stored row has status = target and updated_at = the time of
\* the call, and the payload holds cleaned_at, equal to the time of the
\* call, exactly when target = 'cleaned'.
C2_TransitionEffect ==
  [][\A i \in 1 .. Len(mapTasks) : UpdateAccepted(i) =>
       LET t == mapTasks[i]
           new == trash_locations'[t.locationId]
       IN /\ new.status = t.newStatus
          /\ new.updated_at = t.calledAt
          /\ ("cleaned_at" \in DOMAIN t.updates) <=> (t.newStatus = "cleaned")
          /\ t.newStatus = "cleaned" =>
               /\ t.updates.cleaned_at = Some(t.calledAt)
               /\ new.cleaned_at = Some(t.calledAt)
    ]_vars

\* C2 witness: a row was moved to 'cleaned' and carries the stamp of the call
C2_Witness ==
  \E id \in LocIds :
    /\ transitioned[id]
    /\ trash_locations[id].status = "cleaned"
    /\ trash_locations[id].updated_at > 0
    /\ trash_locations[id].cleaned_at = Some(trash_locations[id].updated_at)

\* C3: a row that was never transitioned has cleaned_at absent, and
\* cleaned_at, once set, is set in every later state, also after a
\* transition from 'cleaned' to 'in_progress' or 'rejected'.
C3_CleanedAtKept ==
  /\ [](\A id \in LocIds :
          ~transitioned[id] => trash_locations[id].cleaned_at = None)
  /\ [][\A id \in LocIds :
          trash_locations[id].cleaned_at # None =>
            trash_locations'[id].cleaned_at # None]_vars

\* C3 witness: a row left 'cleaned' and still has its cleaned_at
C3_Witness ==
  \E id \in LocIds :
    /\ trash_locations[id].status \in {"in_progress", "rejected"}
    /\ trash_locations[id].cleaned_at # None

\* C4: cleaned_at is set if and only if the row's status has been 'cleaned'
\* at some point of its history, the seeded rows included.
C4_CleanedAtIffEverCleaned ==
  \A id \in LocIds :
    (trash_locations[id].cleaned_at # None) <=> everCleaned[id]

CanClick == clock < MaxClock /\ Len(mapTasks) < MaxTasks

C7_RefetchThenClose ==
  [][\A i \in 1 .. Len(mapTasks) : Continued(i) =>
       LET t == mapTasks[i]
       IN /\ (t.op = "update" /\ t.ok) =>
               /\ Len(mapTasks') = Len(mapTasks)
               /\ mapTasks'[i].op = "fetch"
               /\ mapTasks'[i].pc = "sent"
               /\ loading'
               /\ UNCHANGED <<selectedLocation, locations>>
          /\ (t.op = "update" /\ ~t.ok) =>
               /\ mapTasks' = RemoveAt(mapTasks, i)
               /\ UNCHANGED <<selectedLocation, locations, loading>>
          /\ (t.op = "fetch" /\ t.origin = "status") =>
               /\ selectedLocation' = None
               /\ mapTasks' = RemoveAt(mapTasks, i)
    ]_vars

\* C7 witness: after an accepted transition the view holds the re-fetched
\* row, the panel is closed and no request is in flight
C7_Witness ==
  /\ mapTasks = <<>>
  /\ selectedLocation = None
  /\ \E k \in 1 .. Len(locations) :
       /\ transitioned[locations[k].id]
       /\ locations[k].updated_at > 0
       /\ locations[k] = Joined(trash_locations[locations[k].id])

----------------------------------------------------------------------------
(* Claims about the search filters and the Users view *)

\* q occurs in s as a contiguous subsequence
OccursIn(q, s) ==
  \E a \in 1 .. (Len(s) - Len(q) + 1) : SubSeq(s, a, a + Len(q) - 1) = q

\* the lower-cased search text occurs in one of the lower-cased fields
\* full_name, email, phone of the user; an absent phone does not count
UserDesignated(u, q) ==
  \/ OccursIn(toLowerCase(q), toLowerCase(u.full_name))
  \/ OccursIn(toLowerCase(q), toLowerCase(u.email))
  \/ \E p \in {u.phone[k] : k \in 1 .. Len(u.phone)} :
       OccursIn(toLowerCase(q), toLowerCase(p))

\* the same for a log entry and its fields action, entity_type
LogDesignated(l, q) ==
  \/ OccursIn(toLowerCase(q), toLowerCase(l.action))
  \/ \E p \in {l.entity_type[k] : k \in 1 .. Len(l.entity_type)} :
       OccursIn(toLowerCase(q), toLowerCase(p))

\* C8: the displayed list of the Users view (of the Logs view) is exactly
\* the held rows whose full_name, email or phone (action or entity_type)
\* contains the search text, both lower-cased, in the order of the held
\* rows; an absent phone or entity_type never matches; the empty search
\* text displays every row; and of the three seeded users, "mar" displays
\* exactly the second.
C8_FilterExact ==
  /\ filteredUsers(users, usersSearchQuery)
       = SelectSeq(users, LAMBDA u : UserDesignated(u, usersSearchQuery))
  /\ filteredLogs(logs, logsSearchQuery)
       = SelectSeq(logs, LAMBDA l : LogDesignated(l, logsSearchQuery))
  /\ usersSearchQuery = <<>> => filteredUsers(users, usersSearchQuery) = users
  /\ logsSearchQuery = <<>> => filteredLogs(logs, logsSearchQuery) = logs
  /\ (users = <<SeedUser(1), SeedUser(2), SeedUser(3)>>
        /\ usersSearchQuery = <<"m", "a", "r">>)
       => filteredUsers(users, usersSearchQuery) = <<SeedUser(2)>>

\* C8 witness: an upper-case search text keeps the rows that match in lower
\* case and drops a row without phone and a row without entity_type
C8_Witness ==
  /\ usersSearchQuery = <<"M", "A", "R">>
  /\ users = <<PoolUser, SeedUser(2)>>
  /\ filteredUsers(users, usersSearchQuery) = users
  /\ logsSearchQuery = <<"S", "y", "s">>
  /\ logs = <<PoolLog, SeedLogs[2]>>
  /\ filteredLogs(logs, logsSearchQuery) = <<SeedLogs[2]>>

\* the step is the backend accepting the update request of Users task i
UserUpdateAccepted(i) ==
  /\ userTasks[i].op = "update"
  /\ userTasks[i].pc = "sent"
  /\ Len(userTasks') = Len(userTasks)
  /\ userTasks'[i].op = "update"
  /\ userTasks'[i].pc = "replied"
  /\ userTasks'[i].ok

\* C9: after two toggle-active operations on a user, the user's stored
\* is_active equals its value before the first of them.
C9_ToggleTwiceRestores ==
  \A id \in UserIds :
    toggleCount[id] = 2 => project_users[id].is_active = SeedUser(id).is_active

\* C10: every accepted toggle-active sets updated_at to a value strictly
\* greater than the one the row had.
C10_UpdatedAtIncreases ==
  [][\A i \in 1 .. Len(userTasks) : UserUpdateAccepted(i) =>
       project_users'[userTasks[i].userId].updated_at
         > project_users[userTasks[i].userId].updated_at
    ]_vars

----------------------------------------------------------------------------
(* Claims about the Logs view *)

\* the step is LogsView handling the response of task i
LogsHandled(i) ==
  /\ logTasks[i].pc = "replied"
  /\ logTasks' = RemoveAt(logTasks, i)

\* no entry of the table passes the level filter
NoEntryOf(level) ==
  \A j \in DOMAIN system_logs :
    level # "all" /\ system_logs[j].log_level # level

\* C11: in every reachable state the Logs view holds at most 100 entries,
\* whatever the size of system_logs and whatever level filter is selected.
C11_AtMostHundred == Len(logs) <= 100

\* C11 witness: the table has more than 100 entries and the view holds 100
C11_Witness ==
  /\ Len(system_logs) > 100
  /\ Len(logs) = 100
  /\ logs[1].id = Len(system_logs)

\* C12 as stated: whenever a level filter other than 'all' is selected,
\* every entry the view holds has log_level equal to the selected level.
C12_LevelOriginal ==
  filterLevel # "all" =>
    \A k \in 1 .. Len(logs) : logs[k].log_level = filterLevel

\* C12 amended: whenever a level filter other than 'all' is selected and the
\* rows the view holds are those of the fetch issued for that selection (the
\* last fetch issued), every entry held has log_level equal to the selected
\* level; and every response applied for a level other than 'all' leaves the
\* view with entries of that level only.
C12_LevelAmended ==
  /\ []((filterLevel # "all" /\ logsHeld = logsIssued) =>
          \A k \in 1 .. Len(logs) : logs[k].log_level = filterLevel)
  /\ [][\A i \in 1 .. Len(logTasks) :
          (LogsHandled(i) /\ logTasks[i].ok /\ logTasks[i].level # "all") =>
            \A k \in 1 .. Len(logs') : logs'[k].log_level = logTasks[i].level
       ]_vars

\* C12 witness: the view holds the non-empty result of the fetch for 'error'
C12_Witness ==
  /\ filterLevel = "error"
  /\ logsHeld = logsIssued
  /\ logs # <<>>
  /\ Len(logs) < Len(system_logs)

\* C13: when the backend serves a fetch for a level no entry of the table
\* has, the view ends with an empty list, loading false, and the error
\* branch is not taken.
C13_EmptyNotError ==
  [][\A i \in 1 .. Len(logTasks) :
       (LogsHandled(i) /\ logTasks[i].ok /\ NoEntryOf(logTasks[i].level)) =>
         /\ logs' = <<>>
         /\ logsLoading' = FALSE
         /\ logsOutcome' = "applied"
    ]_vars

\* C13 witness: filtered to 'critical' on a non-empty table, after rows of
\* another level selection were held, the view holds the empty result
C13_Witness ==
  /\ filterLevel = "critical"
  /\ system_logs # <<>>
  /\ logTasks = <<>>
  /\ logsHeld = logsIssued
  /\ logsIssued > 1
  /\ logsOutcome = "applied"
  /\ logs = <<>>
  /\ logsLoading = FALSE

----------------------------------------------------------------------------
(* Claims about timestamps, failed fetches and requests in flight *)

\* C14: whenever a transition to 'cleaned' is applied to a row, the
\* cleaned_at it stores is greater than or equal to the row's created_at.
C14_CleanedAfterCreated ==
  [][\A i \in 1 .. Len(mapTasks) :
       (UpdateAccepted(i) /\ mapTasks[i].newStatus = "cleaned") =>
         LET new == trash_locations'[mapTasks[i].locationId]
         IN /\ new.cleaned_at # None
            /\ new.cleaned_at[1] >= new.created_at
    ]_vars

\* the step is UsersView running the continuation of task i
UserContinued(i) ==
  /\ userTasks[i].pc = "replied"
  /\ \/ userTasks' = RemoveAt(userTasks, i)
     \/ Len(userTasks') = Len(userTasks) /\ userTasks'[i] # userTasks[i]

\* the step is the backend rejecting the request of Users task i
UserRequestRejected(i) ==
  /\ userTasks[i].pc = "sent"
  /\ Len(userTasks') = Len(userTasks)
  /\ userTasks'[i].pc = "replied"
  /\ ~userTasks'[i].ok

\* the requests of handleToggleActive, handleSaveEdit and handleAddUser
Mutations == {"update", "edit", "insert"}

\* the step replaces task i by a fetchUsers request just sent
RefetchIssued(i) ==
  /\ Len(userTasks') = Len(userTasks)
  /\ userTasks'[i].op = "fetch"
  /\ userTasks'[i].pc = "sent"
  /\ usersLoading'

\* C17 as stated: the continuation of every mutation of the Users view
\* (toggle-active, edit, create) issues a re-fetch of the user list, whether
\* the backend accepted or rejected the mutation.
C17_RefetchOriginal ==
  [][\A i \in 1 .. Len(userTasks) :
       (UserContinued(i) /\ userTasks[i].op \in Mutations) => RefetchIssued(i)
    ]_vars

\* C17 amended: the continuation of every mutation of the Users view that
\* the backend accepted issues a re-fetch of the user list; the continuation
\* of a rejected mutation issues no request and leaves the list and the
\* loading flag alone.
C17_RefetchAmended ==
  [][\A i \in 1 .. Len(userTasks) :
       (UserContinued(i) /\ userTasks[i].op \in Mutations) =>
         IF userTasks[i].ok
         THEN RefetchIssued(i) /\ UNCHANGED users
         ELSE /\ userTasks' = RemoveAt(userTasks, i)
              /\ UNCHANGED <<users, usersLoading>>
    ]_vars

\* C17 witness: the list holds the re-fetched rows of an accepted create,
\* and the last error logged is the one of a rejected mutation
C17_Witness ==
  /\ userTasks = <<>>
  /\ Len(users) = NumSeed + 1
  /\ usersConsole \in {"Error toggling user status:", "Error updating user:",
                       "Error adding user:"}

\* C18: when the backend rejects an edit or a create, the stored rows are
\* unchanged, and the continuation leaves the list, editingUser, editForm,
\* showAddForm and newUserForm as they are; a handler closes and resets a
\* form only in the continuation of the re-fetch that followed a mutation
\* the backend accepted.
C18_RejectedKeepsForm ==
  [][/\ \A i \in 1 .. Len(userTasks) :
          (UserRequestRejected(i) /\ userTasks[i].op \in {"edit", "insert"})
            => UNCHANGED project_users
     /\ \A i \in 1 .. Len(userTasks) :
          (UserContinued(i) /\ userTasks[i].op \in {"edit", "insert"}
             /\ ~userTasks[i].ok)
            => UNCHANGED <<project_users, users, usersForms>>
     /\ \A i \in 1 .. Len(userTasks) :
          (UserContinued(i) /\ usersForms' # usersForms) =>
            /\ userTasks[i].op = "fetch"
            /\ userTasks[i].origin \in {"edit", "add"}
     /\ \A i \in 1 .. Len(userTasks') :
          (/\ userTasks'[i].op = "fetch"
           /\ userTasks'[i].pc = "sent"
           /\ userTasks'[i].origin \in {"edit", "add"}
           /\ userTasks' # userTasks) =>
            \/ \E j \in 1 .. Len(userTasks) : userTasks[j] = userTasks'[i]
            \/ /\ Len(userTasks') = Len(userTasks)
               /\ userTasks[i].op =
                    (IF userTasks'[i].origin = "edit" THEN "edit" ELSE "insert")
               /\ userTasks[i].pc = "replied"
               /\ userTasks[i].ok
    ]_vars

\* C18 witness: an edit was rejected and the edit row is still open with the
\* typed name, while the table and the list hold the seeded rows
C18_Witness ==
  /\ userTasks = <<>>
  /\ usersConsole = "Error updating user:"
  /\ clock = 1
  /\ editingUser # None
  /\ editForm # None
  /\ editForm[1].full_name = <<"Z">>
  /\ project_users = [i \in UserIds |-> SeedUser(i)]
  /\ users = SelectUsers

\* the step is the view handling the failed response of fetch task i
MapFetchFailed(i) ==
  /\ mapTasks[i].op = "fetch"
  /\ mapTasks[i].pc = "replied"
  /\ ~mapTasks[i].ok
  /\ mapTasks' = RemoveAt(mapTasks, i)

UsersFetchFailed(i) ==
  /\ userTasks[i].op = "fetch"
  /\ userTasks[i].pc = "replied"
  /\ ~userTasks[i].ok
  /\ userTasks' = RemoveAt(userTasks, i)

LogsFetchFailed(i) ==
  /\ logTasks[i].pc = "replied"
  /\ ~logTasks[i].ok
  /\ logTasks' = RemoveAt(logTasks, i)

\* C15 as stated: when a fetch of the Users, Map or Logs view fails, the
\* view's rows become empty, whatever rows it held.
C15_EmptyOriginal ==
  [][/\ \A i \in 1 .. Len(mapTasks) : MapFetchFailed(i) => locations' = <<>>
     /\ \A i \in 1 .. Len(userTasks) : UsersFetchFailed(i) => users' = <<>>
     /\ \A i \in 1 .. Len(logTasks) : LogsFetchFailed(i) => logs' = <<>>
    ]_vars

\* C15 amended: when a fetch of the Users, Map or Logs view fails, the view
\* keeps the rows it held (they are empty only if they were empty before,
\* as on the first fetch after the mount) and its loading flag ends false.
C15_KeptAmended ==
  [][/\ \A i \in 1 .. Len(mapTasks) : MapFetchFailed(i) =>
          locations' = locations /\ loading' = FALSE
     /\ \A i \in 1 .. Len(userTasks) : UsersFetchFailed(i) =>
          users' = users /\ usersLoading' = FALSE
     /\ \A i \in 1 .. Len(logTasks) : LogsFetchFailed(i) =>
          logs' = logs /\ logsLoading' = FALSE
    ]_vars

\* C15 witness: the last fetch of the Logs view failed and the view holds
\* the rows of an earlier fetch
C15_Witness ==
  /\ logTasks = <<>>
  /\ logsOutcome = "error"
  /\ logsLoading = FALSE
  /\ logs # <<>>

\* C16 as stated: when a fetch of the Users, Map or Logs view fails, the
\* rows, the filter text and level and the selection of the view are
\* unchanged; only the loading flag changes.
C16_UnchangedOriginal ==
  [][/\ \A i \in 1 .. Len(mapTasks) : MapFetchFailed(i) =>
          UNCHANGED <<locations, statusFilter, selectedLocation>>
     /\ \A i \in 1 .. Len(userTasks) : UsersFetchFailed(i) =>
          UNCHANGED <<users, usersSearchQuery, usersForms>>
     /\ \A i \in 1 .. Len(logTasks) : LogsFetchFailed(i) =>
          UNCHANGED <<logs, logsSearchQuery, filterLevel>>
    ]_vars

\* C16 amended: when a fetch of the Users, Map or Logs view fails, the rows
\* and the filter text and level of the view are unchanged and the loading
\* flag ends false; the selection is unchanged too, unless the fetch is the
\* re-fetch a handler awaited after an accepted mutation: then the handler
\* still clears the Map selection (handleStatusChange) or closes and resets
\* its form (handleSaveEdit, handleAddUser).
C16_UnchangedAmended ==
  [][/\ \A i \in 1 .. Len(mapTasks) : MapFetchFailed(i) =>
          /\ UNCHANGED <<locations, statusFilter>>
          /\ loading' = FALSE
          /\ selectedLocation' =
               IF mapTasks[i].origin = "status" THEN None ELSE selectedLocation
     /\ \A i \in 1 .. Len(userTasks) : UsersFetchFailed(i) =>
          /\ UNCHANGED <<users, usersSearchQuery>>
          /\ usersLoading' = FALSE
          /\ IF userTasks[i].origin = "edit"
             THEN /\ editingUser' = None
                  /\ editForm' = None
                  /\ UNCHANGED <<showAddForm, newUserForm>>
             ELSE IF userTasks[i].origin = "add"
             THEN /\ showAddForm' = FALSE
                  /\ newUserForm' = EmptyNewUserForm
                  /\ UNCHANGED <<editingUser, editForm>>
             ELSE UNCHANGED usersForms
     /\ \A i \in 1 .. Len(logTasks) : LogsFetchFailed(i) =>
          /\ UNCHANGED <<logs, logsSearchQuery, filterLevel>>
          /\ logsLoading' = FALSE
    ]_vars

\* C16 witness: the re-fetch after an accepted edit failed: the list still
\* holds the row as it was before the edit, and the edit row is closed
C16_Witness ==
  /\ userTasks = <<>>
  /\ usersConsole = "Error fetching users:"
  /\ usersLoading = FALSE
  /\ editingUser = None
  /\ \E k \in 1 .. Len(users) :
       /\ users[k].full_name # <<"Z">>
       /\ project_users[users[k].id].full_name = <<"Z">>

\* C19: no two requests of the same view are in flight at the same time.
C19_OneRequestPerView ==
  /\ Len(mapTasks) <= 1
  /\ Len(userTasks) <= 1
  /\ Len(logTasks) <= 1

\* the step is the view handling the successful response of fetch task i
MapFetchApplied(i) ==
  /\ mapTasks[i].op = "fetch"
  /\ mapTasks[i].pc = "replied"
  /\ mapTasks[i].ok
  /\ mapTasks' = RemoveAt(mapTasks, i)

LogsFetchApplied(i) ==
  /\ logTasks[i].pc = "replied"
  /\ logTasks[i].ok
  /\ logTasks' = RemoveAt(logTasks, i)

\* C20: a fetch response is applied whatever its age: the rows of every
\* successful response replace the rows of the view, also when the request
\* is not the newest one in flight and when the response of a newer request
\* has been applied before (so the view can end up, with no request in
\* flight, holding the rows of a superseded request).
C20_NoGenerationGuard ==
  [][/\ \A i \in 1 .. Len(mapTasks) : MapFetchApplied(i) =>
          locations' = mapTasks[i].data
     /\ \A i \in 1 .. Len(logTasks) : LogsFetchApplied(i) =>
          /\ logs' = logTasks[i].data
          /\ logsHeld' = logTasks[i].seq
    ]_vars

\* C20 witness: no request of the Logs view is in flight, the response of
\* the newest request was applied, and the view holds the rows of an older
\* request, applied after it, which are not the rows of the selected level
C20_Witness ==
  /\ logTasks = <<>>
  /\ logsOutcome = "applied"
  /\ logsSeen = logsIssued
  /\ logsHeld < logsSeen
  /\ logs # SelectLogs(filterLevel)
  /\ \E k \in 1 .. Len(logs) :
       filterLevel # "all" /\ logs[k].log_level # filterLevel

----------------------------------------------------------------------------
(* Claims about the tables, concurrent editors and the lookups *)

\* C21: no step of the Map, Users or Logs view inserts, updates or deletes a
\* row of system_logs: the table is the same after every step.
C21_LogsReadOnly == [][system_logs' = system_logs]_vars

\* C21 witness: the Map view had a status update accepted, and system_logs
\* holds the seeded entries
C21_Witness ==
  /\ \E id \in LocIds : transitioned[id]
  /\ mapTasks = <<>>
  /\ locations # <<>>
  /\ system_logs = SeedLogs

\* the step is the backend accepting the edit request of task i of the
\* session that is running
UserEditAccepted(i) ==
  /\ otherSession' = otherSession
  /\ userTasks[i].op = "edit"
  /\ userTasks[i].pc = "sent"
  /\ Len(userTasks') = Len(userTasks)
  /\ userTasks'[i].op = "edit"
  /\ userTasks'[i].pc = "replied"
  /\ userTasks'[i].ok

\* the backend serves the update request of task i and accepts it
AcceptUpdate(i) == BackendUpdateUser(i) /\ userTasks'[i].ok

\* C22: the backend can accept every edit in flight whose email no other
\* row has, whatever was written to the row since the editor fetched it (no
\* conflict outcome); an accepted edit leaves the stored row equal to its
\* payload, so the row is that of the update applied last and what an
\* earlier editor wrote is gone; and the handler of an accepted edit logs no
\* error.
C22_LastWriteWins ==
  /\ [](\A i \in 1 .. Len(userTasks) :
          (/\ userTasks[i].op = "edit"
           /\ userTasks[i].pc = "sent"
           /\ EmailFree(userTasks[i].userId, userTasks[i].updates))
            => ENABLED AcceptUpdate(i))
  /\ [][\A i \in 1 .. Len(userTasks) : UserEditAccepted(i) =>
          /\ project_users'[userTasks[i].userId] = userTasks[i].updates
          /\ \A j \in DOMAIN project_users \ {userTasks[i].userId} :
               project_users'[j] = project_users[j]
       ]_vars
  /\ [][\A i \in 1 .. Len(userTasks) :
          (/\ otherSession' = otherSession
           /\ UserContinued(i)
           /\ userTasks[i].op = "edit"
           /\ userTasks[i].ok)
            => usersConsole' = usersConsole
       ]_vars

\* C22 witness: two editors opened user 1 from the same list; the first
\* typed a name and saved at instant 1, and holds the re-fetched row with
\* that name; the second typed a phone and saved at instant 2: the stored
\* row has the phone and the seeded name, neither session logged an error,
\* and no request is in flight
C22_Witness ==
  /\ otherSession # None
  /\ userTasks = <<>>
  /\ usersConsole = "none"
  /\ users = SelectUsers
  /\ project_users[1].updated_at = 2
  /\ project_users[1].phone = Some(<<"9">>)
  /\ project_users[1].full_name = SeedUser(1).full_name
  /\ IF otherSession = None THEN FALSE
     ELSE /\ otherSession[1].userTasks = <<>>
          /\ otherSession[1].usersConsole = "none"
          /\ \E k \in 1 .. Len(otherSession[1].users) :
               /\ otherSession[1].users[k].id = 1
               /\ otherSession[1].users[k].full_name = <<"Z">>
               /\ otherSession[1].users[k].updated_at = 1

\* the enum a lookup is written for
EnumOf(name) ==
  CASE name \in {"getMarkerPreset", "getStatusLabel", "getStatusBadgeColor"}
         -> Statuses
    [] name = "getTrashTypeLabel" -> TrashTypes
    [] name \in {"getPriorityLabel", "getPriorityBadgeColor"} -> Priorities

LabelLookups == {"getTrashTypeLabel", "getStatusLabel", "getPriorityLabel"}

\* the entry a lookup has for a value of its enum
OwnEntry(name, arg) ==
  CASE name = "getMarkerPreset" ->
         (CHOOSE p \in {<<"reported", "islands#redIcon">>,
                        <<"in_progress", "islands#blueIcon">>,
                        <<"cleaned", "islands#greenIcon">>,
                        <<"rejected", "islands#grayIcon">>} : p[1] = arg)[2]
    [] name = "getStatusBadgeColor" ->
         (CHOOSE p \in {<<"reported", "bg-red-100 text-red-800">>,
                        <<"in_progress", "bg-blue-100 text-blue-800">>,
                        <<"cleaned", "bg-green-100 text-green-800">>,
                        <<"rejected", "bg-gray-100 text-gray-800">>} : p[1] = arg)[2]
    [] name = "getPriorityBadgeColor" ->
         (CHOOSE p \in {<<"high", "bg-red-100 text-red-800">>,
                        <<"medium", "bg-yellow-100 text-yellow-800">>,
                        <<"low", "bg-green-100 text-green-800">>} : p[1] = arg)[2]
    [] name = "getTrashTypeLabel" -> TrashTypeLabels[arg]
    [] name = "getStatusLabel" -> StatusLabels[arg]
    [] name = "getPriorityLabel" -> PriorityLabels[arg]

\* C23 as stated: each of the six lookups returns a value for every string;
\* for a value of its enum it returns its own entry (for the marker preset
\* red, blue, green, gray for reported, in_progress, cleaned, rejected),
\* and for any other string it returns the string itself.
C23_LookupsOriginal ==
  lookupName # "none" =>
    /\ lookupValue # None
    /\ IF lookupArg \in EnumOf(lookupName)
       THEN lookupValue[1] = OwnEntry(lookupName, lookupArg)
       ELSE lookupValue[1] = lookupArg

\* C23 amended: each of the six lookups returns a value for every string;
\* for a value of its enum it returns its own entry; for any other string
\* the three label lookups return the string itself, unless it names a
\* member every object inherits (such as 'constructor'), which is then
\* returned in place of the string, and the three color lookups return their
\* fixed default: the red icon for the marker preset, the gray badge for
\* the status and priority badges.
C23_LookupsAmended ==
  lookupName # "none" =>
    /\ lookupValue # None
    /\ IF lookupArg \in EnumOf(lookupName)
       THEN lookupValue[1] = OwnEntry(lookupName, lookupArg)
       ELSE IF lookupName \in LabelLookups
       THEN lookupValue[1] =
              (IF lookupArg \in ObjectPrototype THEN NativeMember ELSE lookupArg)
       ELSE IF lookupName = "getMarkerPreset"
       THEN lookupValue[1] = "islands#redIcon"
       ELSE lookupValue[1] = "bg-gray-100 text-gray-800"

\* C23 witness: the marker preset of a string that is no status was looked
\* up, and is the red icon
C23_Witness ==
  /\ lookupName = "getMarkerPreset"
  /\ lookupArg = "unknown"
  /\ lookupValue = Some("islands#redIcon")

----------------------------------------------------------------------------
(* Claims about the edit of a user, the emails and the loading flags *)

\* C24: an edit the backend accepts changes, in the stored row, only
\* full_name, email, phone and updated_at: is_active, reports_count,
\* created_at and id keep the values the row has in the table when the
\* update is applied, also when they were changed after the edit was opened.
C24_EditFrame ==
  [][\A i \in 1 .. Len(userTasks) : UserEditAccepted(i) =>
       \A f \in {"is_active", "reports_count", "created_at", "id"} :
         project_users'[userTasks[i].userId][f]
           = project_users[userTasks[i].userId][f]
    ]_vars

\* the email a create or an edit in flight asks the backend to store
PayloadEmail(t) == IF t.op = "insert" THEN t.form.email ELSE t.updates.email

\* a row other than the one the request is for has that email
Collides(t) ==
  \E j \in DOMAIN project_users :
    /\ t.op = "edit" => j # t.userId
    /\ project_users[j].email = PayloadEmail(t)

\* the step is the backend serving the request of Users task i
UserRequestServed(i) ==
  /\ userTasks[i].pc = "sent"
  /\ Len(userTasks') = Len(userTasks)
  /\ userTasks'[i].pc = "replied"

\* C25: no two rows of project_users have the same email; the backend
\* rejects a create or an edit whose email another row has, and leaves the
\* table as it is; and the handler of a rejected create or edit issues no
\* re-fetch and leaves the list, the loading flag and the forms as they are.
C25_UniqueEmail ==
  /\ [](\A a, b \in DOMAIN project_users :
          a # b => project_users[a].email # project_users[b].email)
  /\ [][\A i \in 1 .. Len(userTasks) :
          (/\ UserRequestServed(i)
           /\ userTasks[i].op \in {"edit", "insert"}
           /\ Collides(userTasks[i]))
            => ~userTasks'[i].ok /\ UNCHANGED project_users
       ]_vars
  /\ [][\A i \in 1 .. Len(userTasks) :
          (/\ UserContinued(i)
           /\ userTasks[i].op \in {"edit", "insert"}
           /\ ~userTasks[i].ok)
            => /\ userTasks' = RemoveAt(userTasks, i)
               /\ UNCHANGED <<project_users, users, usersLoading, usersForms>>
       ]_vars

\* C25 witness: a user has been created, and the backend has rejected an
\* edit that gives another user the email of the created one
C25_Witness ==
  /\ Cardinality(DOMAIN project_users) = NumSeed + 1
  /\ \E i \in 1 .. Len(userTasks) :
       /\ userTasks[i].op = "edit"
       /\ userTasks[i].pc = "replied"
       /\ ~userTasks[i].ok
       /\ userTasks[i].updates.email = project_users[NumSeed + 1].email
       /\ userTasks[i].userId # NumSeed + 1


\* a request of the task list is awaiting the response of the backend
InFlight(tasks) == \E i \in 1 .. Len(tasks) : tasks[i].pc = "sent"

\* C26: in every reachable state, the loading flag of a view is true
\* whenever a fetch or a mutation request of that view is in flight.
C26_LoadingWhileInFlight ==
  /\ InFlight(mapTasks) => loading
  /\ InFlight(userTasks) => usersLoading
  /\ InFlight(logTasks) => logsLoading


\* the step is the view taking up task i of its list: the task is neither
\* kept in its slot nor moved down by the removal of an older task
TakenUp(old, new, i) ==
  /\ new # old
  /\ ~(Len(new) >= Len(old) /\ new[i] = old[i])
  /\ \A j \in 1 .. Len(old) : j # i /\ new = RemoveAt(old, j)
                                => new = RemoveAt(old, i)

\* the step sends a fetch
FetchSent(old, new) ==
  \E i \in 1 .. Len(new) :
    /\ new[i].op = "fetch"
    /\ new[i].pc = "sent"
    /\ i > Len(old) \/ old[i] # new[i]

\* C27: if every backend call resolves or rejects, a view with requests in
\* flight comes to a state where its loading flag is false; the step that
\* completes the last outstanding request of a view leaves the flag false,
\* the flag stays false until a fetch is sent, and the handling of a failed
\* fetch sends no request.
C27_LeavesLoading ==
  /\ (mapTasks # <<>>) ~> ~loading
  /\ (userTasks # <<>>) ~> ~usersLoading
  /\ (logTasks # <<>>) ~> ~logsLoading
  /\ [][/\ mapTasks # <<>> /\ mapTasks' = <<>> => ~loading'
        /\ userTasks # <<>> /\ userTasks' = <<>> => ~usersLoading'
        /\ logTasks # <<>> /\ logTasks' = <<>> => ~logsLoading'
       ]_vars
  /\ [][/\ ~loading /\ loading' => FetchSent(mapTasks, mapTasks')
        /\ ~usersLoading /\ usersLoading' => FetchSent(userTasks, userTasks')
        /\ ~logsLoading /\ logsLoading' => FetchSent(logTasks, logTasks')
       ]_vars
  /\ [][/\ \A i \in 1 .. Len(mapTasks) :
             (/\ mapTasks[i].op = "fetch"
              /\ mapTasks[i].pc = "replied"
              /\ ~mapTasks[i].ok
              /\ TakenUp(mapTasks, mapTasks', i))
               => mapTasks' = RemoveAt(mapTasks, i)
        /\ \A i \in 1 .. Len(userTasks) :
             (/\ userTasks[i].op = "fetch"
              /\ userTasks[i].pc = "replied"
              /\ ~userTasks[i].ok
              /\ TakenUp(userTasks, userTasks', i))
               => userTasks' = RemoveAt(userTasks, i)
        /\ \A i \in 1 .. Len(logTasks) :
             (/\ logTasks[i].pc = "replied"
              /\ ~logTasks[i].ok
              /\ TakenUp(logTasks, logTasks', i))
               => logTasks' = RemoveAt(logTasks, i)
       ]_vars

\* C27 witness: the only fetch of the Map view has failed, no request is
\* left and the view has left the loading state with no rows
C27_Witness ==
  /\ mapTasks = <<>>
  /\ ~loading
  /\ locations = <<>>
  /\ statusFilter = "all"
  /\ clock = 0


----------------------------------------------------------------------------
(* Claims about the detail panel and the status filter of the Map view *)

\* the step is handleStatusChange completing: the re-fetch that followed
\* its update, task i, has been handled
TransitionCompleted(i) ==
  /\ mapTasks[i].op = "fetch"
  /\ mapTasks[i].origin = "status"
  /\ mapTasks[i].pc = "replied"
  /\ mapTasks' = RemoveAt(mapTasks, i)

\* C28: the completion of a status transition closes the detail panel only
\* for the record that was transitioned: a panel that shows a record no
\* transition was ever applied to, which the operator opened while the
\* update or its re-fetch was in flight, is still open after the step.
C28_NewerSelectionKept ==
  [][\A i \in 1 .. Len(mapTasks) :
       (/\ TransitionCompleted(i)
        /\ selectedLocation # None
        /\ ~transitioned[selectedLocation[1].id])
         => selectedLocation' = selectedLocation
    ]_vars

\* the rows the Map view holds agree with the selected status filter
AgreesWithFilter(rows, filter) ==
  IF filter = "all"
  THEN {rows[k].id : k \in 1 .. Len(rows)} = DOMAIN trash_locations
  ELSE \A k \in 1 .. Len(rows) : rows[k].status = filter

\* C29: when the re-fetch that follows a status transition succeeds and
\* its completion leaves no request of the Map view in flight, the rows the
\* view holds agree with the status filter selected at that moment, also
\* when the filter was changed while the transition was in flight: with a
\* filter other than 'all' every row has that status, with 'all' the view
\* holds every stored location.
C29_HeldAgreesWithFilter ==
  [][\A i \in 1 .. Len(mapTasks) :
       (TransitionCompleted(i) /\ mapTasks[i].ok /\ mapTasks' = <<>>)
         => /\ locations' = mapTasks[i].data
            /\ AgreesWithFilter(locations', statusFilter')
    ]_vars

====
